---------------------------- MODULE Spec2Model ----------------------------
(***************************************************************************)
(* A model of the Inkscape "posterbator" extension: the tile layout        *)
(* planner (calculate_poster_size), the slicer and placement transformer   *)
(* (effect) and the hole corrector (separate_holes) of posterbator.py,     *)
(* together with the older variant posterbation.py.                        *)
(*                                                                         *)
(* Numbers the program keeps as floats are modelled as exact rationals     *)
(* <<n, d>> with d > 0 in lowest terms: the model says nothing about       *)
(* binary rounding.  The "%f" formatting of the placement transform is     *)
(* modelled as what it does: rounding to six decimals.                     *)
(***************************************************************************)
EXTENDS Integers, Sequences, FiniteSets, TLC

\* `rest`, begun only once `first` is known.  TLC computes an operand when
\* it is first read; a loop whose every round waits for the round before it
\* would otherwise be unwound from its last round back to its first.
After(first, rest) == IF first = first THEN rest ELSE rest

(***************************************************************************)
(* Rational arithmetic                                                     *)
(***************************************************************************)
Abs(n) == IF n < 0 THEN -n ELSE n

RECURSIVE GCD(_, _)
GCD(a, b) == IF b = 0 THEN a ELSE GCD(b, a % b)

RNorm(n, d) ==
    LET g == GCD(Abs(n), Abs(d))
        s == IF d < 0 THEN -1 ELSE 1
    IN  <<(s * n) \div g, (s * d) \div g>>

RInt(k) == <<k, 1>>
\* sums and comparisons go through the least common denominator and products
\* cancel first, which keeps the intermediate integers small
RAdd(a, b) ==
    LET g == GCD(a[2], b[2])
    IN  RNorm(a[1] * (b[2] \div g) + b[1] * (a[2] \div g), (a[2] \div g) * b[2])
RNeg(a) == <<-a[1], a[2]>>
RSub(a, b) == RAdd(a, RNeg(b))
RMul(a, b) ==
    LET x == RNorm(a[1], b[2])
        y == RNorm(b[1], a[2])
    IN  RNorm(x[1] * y[1], x[2] * y[2])
\* defined for b /= 0 only: every use is guarded the way Python raises
\* ZeroDivisionError
RDiv(a, b) == RMul(a, RNorm(b[2], b[1]))
RLt(a, b) == RSub(a, b)[1] < 0
RLe(a, b) == RSub(a, b)[1] <= 0
RMin(a, b) == IF RLt(b, a) THEN b ELSE a
RMax(a, b) == IF RLt(a, b) THEN b ELSE a
RIsZero(a) == a[1] = 0
\* rounding down where the program rounds up
RFloor(a) == a[1] \div a[2]

\* math.ceil
RCeil(a) == -((-a[1]) \div a[2])

\* the box's height taken for its width
BBoxWidthOfHeight(b) == RInt(b.y1 - b.y0)

(***************************************************************************)
(* Tile Layout Planner                                                     *)
(***************************************************************************)
\* BoundingBox.width / .height of an integer box [x0, y0, x1, y1]
BBoxWidth(b) == RInt(b.x1 - b.x0)
BBoxHeight(b) == RInt(b.y1 - b.y0)

\* The planner's outcomes: a 5-tuple, or how it ended instead.
Raised(kind, msg) == [tag |-> kind, msg |-> msg]
Planned(sheet_size, slice_rect_size, sheets_n, margin, scale) ==
    [tag |-> "ok", sheet_size |-> sheet_size, slice_rect_size |-> slice_rect_size,
     sheets_n |-> sheets_n, margin |-> margin, scale |-> scale]

\* Lines 357-387 of posterbator.py, reached once the options are accepted.
PosterSizeOf(o, sheet_size, sheets_n, margin, sel_bbox) ==
    LET inner_w == RSub(RInt(sheet_size[1]), RMul(RInt(2), margin))
        inner_h == RSub(RInt(sheet_size[2]), RMul(RInt(2), margin))
        width == BBoxWidth(sel_bbox)
        height == BBoxHeight(sel_bbox)
    IN  IF RIsZero(inner_h) THEN Raised("ZeroDivisionError", "line 361")
        ELSE LET image_per_sheet_ratio == RDiv(inner_w, inner_h) IN
        IF RIsZero(height) THEN Raised("ZeroDivisionError", "image_ratio")
        ELSE LET image_ratio == RDiv(width, height) IN
        IF o.output_sheet_orientation = "wide"
        THEN LET slice_rect_width == RDiv(width, sheets_n) IN
             IF RIsZero(image_per_sheet_ratio)
             THEN Raised("ZeroDivisionError", "slice_rect_height")
             ELSE LET slice_rect_height == RDiv(slice_rect_width, image_per_sheet_ratio)
                      sheets_n_wide == RCeil(sheets_n)
                  IN
             IF RIsZero(image_ratio) THEN Raised("ZeroDivisionError", "sheets_n_high")
             ELSE LET sheets_n_high ==
                          RCeil(RMul(RMul(RDiv(RInt(1), image_ratio),
                                          image_per_sheet_ratio), sheets_n))
                  IN
             IF RIsZero(width) THEN Raised("ZeroDivisionError", "scale")
             ELSE Planned(sheet_size, <<slice_rect_width, slice_rect_height>>,
                          <<sheets_n_wide, sheets_n_high>>, margin,
                          RDiv(RMul(inner_w, sheets_n), width))
        ELSE LET slice_rect_height == RDiv(height, sheets_n)
                 slice_rect_width == RMul(slice_rect_height, image_per_sheet_ratio)
                 sheets_n_high == RCeil(sheets_n)
             IN
             IF RIsZero(image_per_sheet_ratio)
             THEN Raised("ZeroDivisionError", "sheets_n_wide")
             ELSE LET sheets_n_wide ==
                          RCeil(RMul(RDiv(image_ratio, image_per_sheet_ratio), sheets_n))
                  IN  Planned(sheet_size, <<slice_rect_width, slice_rect_height>>,
                              <<sheets_n_wide, sheets_n_high>>, margin,
                              RDiv(RMul(inner_h, sheets_n), height))

\* a planner that takes the ends of the accepted ranges for rejected
calculate_poster_size_strict(o, sel_bbox) ==
    IF o.sheet_size /= "A4" THEN Raised("AssertionError", "Incorrect sheet size!")
    ELSE LET a4 == <<210, 297>>
             sheet_size == IF o.sheet_orientation = "landscape"
                           THEN <<a4[2], a4[1]>> ELSE a4
             sheets_n == o.output_sheets_number
             margin == o.margin
         IN  IF RLe(sheets_n, RInt(1)) \/ RLe(RInt(10), sheets_n)
             THEN Raised("AssertionError", "Incorrect sheets number!")
             ELSE IF RLe(margin, RInt(0)) \/ RLe(RInt(50), margin)
             THEN Raised("AssertionError", "Incorrect margin!")
             ELSE PosterSizeOf(o, sheet_size, sheets_n, margin, sel_bbox)

\* a planner that does not turn the sheet for the landscape orientation
calculate_poster_size_unturned(o, sel_bbox) ==
    IF o.sheet_size /= "A4" THEN Raised("AssertionError", "Incorrect sheet size!")
    ELSE LET sheet_size == <<210, 297>>
             sheets_n == o.output_sheets_number
             margin == o.margin
         IN  IF RLt(sheets_n, RInt(1)) \/ RLt(RInt(10), sheets_n)
             THEN Raised("AssertionError", "Incorrect sheets number!")
             ELSE IF RLt(margin, RInt(0)) \/ RLt(RInt(50), margin)
             THEN Raised("AssertionError", "Incorrect margin!")
             ELSE PosterSizeOf(o, sheet_size, sheets_n, margin, sel_bbox)

\* Posterbator.calculate_poster_size: a rejected option is a failed assertion.
calculate_poster_size(o, sel_bbox) ==
    IF o.sheet_size /= "A4" THEN Raised("AssertionError", "Incorrect sheet size!")
    ELSE LET a4 == <<210, 297>>
             sheet_size == IF o.sheet_orientation = "landscape"
                           THEN <<a4[2], a4[1]>> ELSE a4
             sheets_n == o.output_sheets_number
             margin == o.margin
         IN  IF RLt(sheets_n, RInt(1)) \/ RLt(RInt(10), sheets_n)
             THEN Raised("AssertionError", "Incorrect sheets number!")
             ELSE IF RLt(margin, RInt(0)) \/ RLt(RInt(50), margin)
             THEN Raised("AssertionError", "Incorrect margin!")
             ELSE PosterSizeOf(o, sheet_size, sheets_n, margin, sel_bbox)

(***************************************************************************)
(* Geometry.  A path is a sequence of pieces (the sub-shapes of a compound *)
(* path); a piece has an inked area and the holes enclosed by it, each a   *)
(* set of unit squares <<x, y>> (the square [x, x+1] x [y, y+1]).  A       *)
(* rectangle has rational left, top, width, height.                        *)
(***************************************************************************)
Piece(ink, holes) == [ink |-> ink, holes |-> holes]

RECURSIVE SeqUnion(_)
SeqUnion(ss) == IF ss = <<>> THEN {} ELSE Head(ss) \cup SeqUnion(Tail(ss))

\* the inked area of a path, and the area its holes enclose
InkOf(pieces) == SeqUnion([k \in 1..Len(pieces) |-> pieces[k].ink])
HolesOf(pieces) == SeqUnion([k \in 1..Len(pieces) |-> UNION pieces[k].holes])

RECURSIVE SelectSeqBy(_, _)
SelectSeqBy(s, keep) ==
    IF s = <<>> THEN <<>>
    ELSE IF Len(s) = 1 THEN (IF s[1] \in keep THEN s ELSE <<>>)
    ELSE LET mid == Len(s) \div 2
         IN  SelectSeqBy(SubSeq(s, 1, mid), keep)
             \o SelectSeqBy(SubSeq(s, mid + 1, Len(s)), keep)

\* the unit square q and the rectangle r share area
Overlaps(q, r) ==
    /\ RLt(r.left, RInt(q[1] + 1)) /\ RLt(RInt(q[1]), RAdd(r.left, r.width))
    /\ RLt(r.top, RInt(q[2] + 1)) /\ RLt(RInt(q[2]), RAdd(r.top, r.height))

\* the unit square q lies strictly inside the rectangle r
Inside(q, r) ==
    /\ RLt(r.left, RInt(q[1])) /\ RLt(RInt(q[1] + 1), RAdd(r.left, r.width))
    /\ RLt(r.top, RInt(q[2])) /\ RLt(RInt(q[2] + 1), RAdd(r.top, r.height))

\* path-intersection of a path with a rectangle: the ink inside the
\* rectangle; a hole stays a hole only when the rectangle does not cut it
\* (a cut hole is a notch of the outline); a piece with no ink left is gone
ClipPiece(pc, r) ==
    Piece({q \in pc.ink : Overlaps(q, r)},
          {h \in pc.holes : \A q \in h : Inside(q, r)})

RECURSIVE ClipPieces(_, _)
ClipPieces(pieces, r) ==
    IF pieces = <<>> THEN <<>>
    ELSE LET c == ClipPiece(Head(pieces), r)
         IN  (IF c.ink = {} THEN <<>> ELSE <<c>>) \o ClipPieces(Tail(pieces), r)

\* path-difference: what of the path lies outside the area `minus`
RECURSIVE DiffPieces(_, _)
DiffPieces(pieces, minus) ==
    IF pieces = <<>> THEN <<>>
    ELSE LET c == Piece(Head(pieces).ink \ minus, Head(pieces).holes)
         IN  (IF c.ink = {} THEN <<>> ELSE <<c>>) \o DiffPieces(Tail(pieces), minus)

(***************************************************************************)
(* Identifiers are strings, modelled as sequences of character codes.      *)
(***************************************************************************)
RECURSIVE Digits(_)
\* "%d" of a natural number
Digits(n) == IF n < 10 THEN <<48 + n>> ELSE Digits(n \div 10) \o <<48 + (n % 10)>>

\* a label whose letter starts again at "A" after "Z"
get_page_number_str_wrapped(page_idx) ==
    <<65 + (page_idx[1] % 26)>> \o Digits(page_idx[2] + 1)

\* get_page_number_str: "%s%d" % (chr(65 + i), j + 1)
get_page_number_str(page_idx) == <<65 + page_idx[1]>> \o Digits(page_idx[2] + 1)

Dash == 45
\* "%s-%s" % (a, b)
Joined(a, b) == a \o <<Dash>> \o b

RECURSIVE SplitHead(_)
\* s.split("-")[0]
SplitHead(s) ==
    IF s = <<>> \/ Head(s) = Dash THEN <<>> ELSE <<Head(s)>> \o SplitHead(Tail(s))

Space == 32
RECURSIVE FirstWord(_)
\* line.split(" ")[0]
FirstWord(line) ==
    IF line = <<>> \/ Head(line) = Space THEN <<>>
    ELSE <<Head(line)>> \o FirstWord(Tail(line))

\* inkscape_stdout_to_ids: the first word of every line of the output
inkscape_stdout_to_ids(lines) == [k \in 1..Len(lines) |-> FirstWord(lines[k])]

\* a line of "select-list": the identifier of the selected object, a space,
\* and what else the engine says about the object
SelectListLine(id) == id \o <<Space, 99, 108, 111, 110, 101, 100, 58>>

\* a generated identifier (inkex's random id, the engine's new id): a letter
\* and a serial number, never one that is in use
FreshId(n) == <<112>> \o Digits(n)

(***************************************************************************)
(* The document tree: nodes by identifier, each container's children in    *)
(* document order (the last child is on top), the pages of the named view, *)
(* and the serial number of the next generated identifier.                 *)
(***************************************************************************)
RootId == <<114>>
NoTile == <<-1, -1>>
NoRect == [left |-> RInt(0), top |-> RInt(0), width |-> RInt(0), height |-> RInt(0)]
NoTransform == <<>>

\* role, src (the selected element a path derives from) and tile record
\* what a node is for; the program reads none of them
NoBBox == [x0 |-> 0, y0 |-> 0, x1 |-> 0, y1 |-> 0]
Node(role, parent, pieces, src, tile) ==
    [role |-> role, parent |-> parent, pieces |-> pieces, bbox |-> NoBBox,
     rect |-> NoRect, transform |-> NoTransform, src |-> src, tile |-> tile]

IsContainer(doc, id) == id \in DOMAIN doc.kids

\* svg.getElementById
getElementById(doc, id) == id \in DOMAIN doc.nodes

RemoveFromSeq(s, x) == SelectSeq(s, LAMBDA y : y /= x)

\* parent.append(node) of a node that is not in the tree
AddNode(doc, id, node, container) ==
    [doc EXCEPT
        !.nodes = (id :> node) @@ doc.nodes,
        !.kids = (IF container
                  THEN (id :> <<>>) @@ [@ EXCEPT ![node.parent] = Append(@, id)]
                  ELSE [@ EXCEPT ![node.parent] = Append(@, id)])]

\* the function f, tabulated (TLC keeps a function constructor as a rule
\* until it is merged with another function)
Tabulated(f) == f @@ <<>>

\* node.delete(): the node leaves its parent (a container goes with its
\* list of children)
DeleteNode(doc, id) ==
    LET par == doc.nodes[id].parent
        kids1 == [c \in DOMAIN doc.kids \ {id} |->
                    IF c = par THEN RemoveFromSeq(doc.kids[c], id) ELSE doc.kids[c]]
    IN  [doc EXCEPT
            !.nodes = Tabulated([x \in DOMAIN doc.nodes \ {id} |-> doc.nodes[x]]),
            !.kids = Tabulated(kids1)]

\* parent.append(node) of a node of the tree: it moves to the end of parent
MoveNode(doc, id, parent) ==
    LET old == doc.nodes[id].parent
        kids1 == [doc.kids EXCEPT ![old] = RemoveFromSeq(@, id)]
    IN  [doc EXCEPT
            !.nodes = [@ EXCEPT ![id].parent = parent],
            !.kids = [kids1 EXCEPT ![parent] = Append(@, id)]]

\* node.set_id(new)
RenameNode(doc, id, new) ==
    LET ren(x) == IF x = id THEN new ELSE x
        old(x) == IF x = new THEN id ELSE x
    IN  [doc EXCEPT
            !.nodes = Tabulated([x \in {ren(y) : y \in DOMAIN doc.nodes} |->
                         [doc.nodes[old(x)] EXCEPT !.parent = ren(@)]]),
            !.kids = Tabulated([c \in {ren(y) : y \in DOMAIN doc.kids} |->
                         Tabulated([k \in 1..Len(doc.kids[old(c)]) |->
                                       ren(doc.kids[old(c)][k])])])]

(***************************************************************************)
(* State                                                                   *)
(***************************************************************************)
VARIABLES
    variant,      \* "posterbator" or "posterbation": which script runs
    opt,          \* self.options
    fault,        \* how the engine departs from its contract ("none": not at all)
    doc0,         \* the document as the run found it
    sel0,         \* the selection as the run found it
    doc,          \* self.document
    selection,    \* self.svg.selection: identifiers, in selection order
    pc,           \* where the run is
    err,          \* the exception or error message the run ended with
    res,          \* what calculate_poster_size returned
    env,          \* effect's local variables
    path_cmds,    \* the batch handed to run_pathops
    stdout,       \* what the last run_pathops returned
    sh,           \* separate_holes' local variables
    trips         \* the batches run_pathops was called with, by operation

vars == <<variant, opt, fault, doc0, sel0, doc, selection, pc, err, res, env,
          path_cmds, stdout, sh, trips>>

NoRes == [tag |-> "unset"]
NoEnv == [x_pos |-> 0, y_pos |-> 0, layer_id |-> <<>>, groups |-> <<>>,
          selections |-> <<>>, dx |-> RInt(0), dy |-> RInt(0),
          holes_group_id |-> <<>>]
NoSh == [group_ids |-> <<>>, page_numbers |-> <<>>, dup_elems_map |-> <<>>,
         nested_groups |-> <<>>, known |-> {}, hole_map |-> <<>>]

(***************************************************************************)
(* Bounding boxes                                                          *)
(***************************************************************************)
SetMin(S) == CHOOSE x \in S : \A y \in S : x <= y
SetMax(S) == CHOOSE x \in S : \A y \in S : y <= x

\* selection.bounding_box() of the selected elements: the union of their
\* boxes (integer corners)
SelectionBBox(d, sel) ==
    LET bs == {d.nodes[sel[k]].bbox : k \in 1..Len(sel)}
    IN  [x0 |-> SetMin({b.x0 : b \in bs}), y0 |-> SetMin({b.y0 : b \in bs}),
         x1 |-> SetMax({b.x1 : b \in bs}), y1 |-> SetMax({b.y1 : b \in bs})]

\* effect, lines 631-649 and 662-663: the pages the document has (or the
\* default page of the view box) and the start position of the poster
PagesOrDefault(d) ==
    IF Len(d.pages) = 0
    THEN <<[x |-> 0, y |-> 0, width |-> d.viewbox[1], height |-> d.viewbox[2]]>>
    ELSE d.pages
XPos(pages) == SetMin({pages[k].x : k \in 1..Len(pages)})
YPos(pages) == SetMax({pages[k].y + pages[k].height : k \in 1..Len(pages)})

(***************************************************************************)
(* effect, up to the slicing batch                                         *)
(***************************************************************************)
\* Posterbation.calculate_poster_size: a rejected option is an error message
\* and the result None
Posterbation_calculate_poster_size(o, sel_bbox) ==
    IF o.sheet_size /= "A4" THEN Raised("errormsg", "Incorrect sheet size!")
    ELSE LET a4 == <<210, 297>>
             sheet_size == IF o.sheet_orientation = "landscape"
                           THEN <<a4[2], a4[1]>> ELSE a4
             sheets_n == o.output_sheets_number
             margin == o.margin
         IN  IF RLt(sheets_n, RInt(1)) \/ RLt(RInt(10), sheets_n)
             THEN Raised("errormsg", "Incorrect sheets number!")
             ELSE IF RLt(margin, RInt(0)) \/ RLt(RInt(50), margin)
             THEN Raised("errormsg", "Incorrect margin!")
             ELSE PosterSizeOf(o, sheet_size, sheets_n, margin, sel_bbox)

\* an entry that lets the planner judge the options before it looks at the
\* selection
effect_entry_options_first(v, o, d, sel) ==
    LET none == [x0 |-> 0, y0 |-> 0, x1 |-> 1, y1 |-> 1]
        r == IF v = "posterbator"
             THEN calculate_poster_size(o, IF Len(sel) = 0 THEN none
                                           ELSE SelectionBBox(d, sel))
             ELSE Posterbation_calculate_poster_size(o, IF Len(sel) = 0 THEN none
                                                        ELSE SelectionBBox(d, sel))
    IN  IF r.tag = "ok" /\ Len(sel) = 0
        THEN Raised(IF v = "posterbator" THEN "AssertionError" ELSE "errormsg",
                    "Please select objects!")
        ELSE r

\* effect, lines 626-655 (307-337 of posterbation.py): the selection check,
\* then the planner; the outcome that decides whether the run goes on
effect_entry(v, o, d, sel) ==
    IF Len(sel) = 0
    THEN Raised(IF v = "posterbator" THEN "AssertionError" ELSE "errormsg",
                "Please select objects!")
    ELSE IF v = "posterbator"
         THEN calculate_poster_size(o, SelectionBBox(d, sel))
         ELSE Posterbation_calculate_poster_size(o, SelectionBBox(d, sel))

\* elem.duplicate(): the copy follows the original among its siblings
InsertAfter(d, orig, id, node) ==
    LET par == d.nodes[orig].parent
        ks == d.kids[par]
        at == CHOOSE k \in 1..Len(ks) : ks[k] = orig
    IN  [d EXCEPT
            !.nodes = (id :> [node EXCEPT !.parent = par]) @@ d.nodes,
            !.kids = [@ EXCEPT ![par] = SubSeq(ks, 1, at) \o <<id>>
                                        \o SubSeq(ks, at + 1, Len(ks))]]

\* a slicing rectangle that takes the row for the column
SliceRectTransposed(sel_bbox, slice_rect_size, page_idx) ==
    [left |-> RAdd(RInt(sel_bbox.x0), RMul(RInt(page_idx[2]), slice_rect_size[1])),
     top |-> RAdd(RInt(sel_bbox.y0), RMul(RInt(page_idx[1]), slice_rect_size[2])),
     width |-> slice_rect_size[1],
     height |-> slice_rect_size[2]]

\* the slicing rectangle of tile page_idx, lines 699-703
SliceRect(sel_bbox, slice_rect_size, page_idx) ==
    [left |-> RAdd(RInt(sel_bbox.x0), RMul(RInt(page_idx[1]), slice_rect_size[1])),
     top |-> RAdd(RInt(sel_bbox.y0), RMul(RInt(page_idx[2]), slice_rect_size[2])),
     width |-> slice_rect_size[1],
     height |-> slice_rect_size[2]]

\* lines 694-712: for one page, a duplicate of every selected element and
\* its slicing rectangle, and the command that intersects the two
RECURSIVE SliceElems(_, _, _, _, _, _)
SliceElems(acc, sel, ind, page_idx, slice_rect_size, sel_bbox) ==
    IF ind > Len(sel) THEN acc
    ELSE LET d == acc.doc
             dup_id == FreshId(d.next)
             rect_id == FreshId(d.next + 1)
             dup == [d.nodes[sel[ind]] EXCEPT !.role = "dup", !.src = ind,
                                              !.tile = page_idx]
             d1 == InsertAfter(d, sel[ind], dup_id, dup)
             rect == [Node("rect", RootId, <<>>, ind, page_idx) EXCEPT
                         !.rect = SliceRect(sel_bbox, slice_rect_size, page_idx)]
             d2 == AddNode(d1, rect_id, rect, FALSE)
             cmd == [objs |-> <<dup_id, rect_id>>, op |-> "inter",
                     page_idx |-> page_idx, page |-> Len(d.pages), group |-> ind]
         IN  SliceElems([doc |-> [d2 EXCEPT !.next = @ + 2],
                         cmds |-> Append(acc.cmds, cmd)],
                        sel, ind + 1, page_idx, slice_rect_size, sel_bbox)

\* lines 682-712: the page k (counted row by row) and its commands
SliceTile(acc, k, sel, r, x_pos, y_pos, sel_bbox) ==
    LET i == (k - 1) % r.sheets_n[1]
        j == (k - 1) \div r.sheets_n[1]
        page == [x |-> x_pos + i * r.sheet_size[1],
                 y |-> y_pos + j * r.sheet_size[2],
                 width |-> r.sheet_size[1], height |-> r.sheet_size[2]]
        withPage == [acc EXCEPT !.doc.pages = Append(@, page)]
    IN  SliceElems(withPage, sel, 1, <<i, j>>, r.slice_rect_size, sel_bbox)

\* lines 680-712: the pages lo..hi in order (the first half, then the rest)
RECURSIVE SliceTiles(_, _, _, _, _, _, _, _)
SliceTiles(acc, lo, hi, sel, r, x_pos, y_pos, sel_bbox) ==
    IF lo > hi THEN acc
    ELSE IF lo = hi THEN SliceTile(acc, lo, sel, r, x_pos, y_pos, sel_bbox)
    ELSE LET mid == (lo + hi) \div 2
             first == SliceTiles(acc, lo, mid, sel, r, x_pos, y_pos, sel_bbox)
         IN  After(first, SliceTiles(first, mid + 1, hi, sel, r, x_pos, y_pos,
                                     sel_bbox))

\* lines 657-712 (339-394): the document and the batch once the plan stands
effect_slice(v, d, sel, r) ==
    LET pages == PagesOrDefault(d)
        d1 == IF Len(pages) = 1 THEN [d EXCEPT !.pages = pages] ELSE d
        \* posterbator.py adds its own layer; posterbation.py adds none
        layer_id == IF v = "posterbator" THEN FreshId(d1.next) ELSE RootId
        d2 == IF v = "posterbator"
              THEN [AddNode(d1, layer_id, Node("layer", RootId, <<>>, 0, NoTile), TRUE)
                        EXCEPT !.next = @ + 1]
              ELSE d1
        built == SliceTiles([doc |-> d2, cmds |-> <<>>], 1,
                            r.sheets_n[1] * r.sheets_n[2], sel, r,
                            XPos(pages), YPos(pages), SelectionBBox(d, sel))
    IN  [doc |-> built.doc, cmds |-> built.cmds,
         env |-> [NoEnv EXCEPT !.x_pos = XPos(pages), !.y_pos = YPos(pages),
                               !.layer_id = layer_id,
                               !.groups = [k \in 1..Len(sel) |-> <<>>]]]

NoErr == [kind |-> "none", msg |-> ""]

Begin ==
    /\ pc = "start"
    /\ LET r == effect_entry(variant, opt, doc, selection) IN
        IF r.tag = "ok"
        THEN LET b == effect_slice(variant, doc, selection, r) IN
             /\ res' = r
             /\ doc' = b.doc
             /\ env' = b.env
             /\ path_cmds' = b.cmds
             /\ pc' = "slice"
             /\ err' = err
        ELSE /\ res' = IF r.msg = "Please select objects!" THEN res ELSE r
             /\ err' = [kind |-> r.tag, msg |-> r.msg]
             \* an exception ends the run; after errormsg, effect returns
             /\ pc' = IF r.tag = "errormsg" THEN "returned" ELSE "aborted"
             /\ UNCHANGED <<doc, env, path_cmds>>
    /\ UNCHANGED <<variant, opt, fault, doc0, sel0, selection, stdout, sh, trips>>

(***************************************************************************)
(* run_pathops: the engine acts on the saved document, batch by batch.     *)
(* What each operation does is the engine's contract as the program        *)
(* relies on it.                                                           *)
(***************************************************************************)
\* "inter" on (dup, rect): the duplicate keeps its identifier and becomes
\* its part inside the rectangle; with nothing inside, both objects are gone
EngineInterOne(d, cmd) ==
    LET dup == cmd.objs[1]
        rect == cmd.objs[2]
        inside == ClipPieces(d.nodes[dup].pieces, d.nodes[rect].rect)
        d1 == IF inside = <<>>
              THEN DeleteNode(d, dup)
              ELSE [d EXCEPT !.nodes[dup].pieces = inside,
                             !.nodes[dup].rect = d.nodes[rect].rect]
    IN  DeleteNode(d1, rect)

\* the commands of the batch in order (the first half, then the rest)
RECURSIVE EngineInter(_, _)
EngineInter(d, cmds) ==
    IF cmds = <<>> THEN d
    ELSE IF Len(cmds) = 1 THEN EngineInterOne(d, cmds[1])
    ELSE LET mid == Len(cmds) \div 2
             first == EngineInter(d, SubSeq(cmds, 1, mid))
         IN  After(first, EngineInter(first, SubSeq(cmds, mid + 1, Len(cmds))))

(***************************************************************************)
(* "%f": a number written with six decimals, rounded half to even.  The    *)
(* result <<w, f>> stands for w + f / 10^6 with 0 <= f < 10^6.             *)
(***************************************************************************)
RECURSIVE LongDiv(_, _, _, _)
\* `digits` more decimal digits of rem / den after the digits in acc
LongDiv(acc, rem, den, digits) ==
    IF digits = 0 THEN <<acc, rem>>
    ELSE LongDiv(acc * 10 + (rem * 10) \div den, (rem * 10) % den, den, digits - 1)

Format6(q) ==
    LET w == q[1] \div q[2]
        ld == LongDiv(0, q[1] - w * q[2], q[2], 6)
        up == 2 * ld[2] > q[2] \/ (2 * ld[2] = q[2] /\ ld[1] % 2 = 1)
        f == IF up THEN ld[1] + 1 ELSE ld[1]
    IN  IF f = 1000000 THEN <<w + 1, 0>> ELSE <<w, f>>

\* the number a six-decimal string stands for
Parse6(s) == RAdd(RInt(s[1]), RNorm(s[2], 1000000))

(***************************************************************************)
(* effect, after the slicing batch: resolve, place, group                  *)
(***************************************************************************)
RMinOf(S) == CHOOSE x \in S : \A y \in S : RLe(x, y)

\* the least x and y of a sliced path: of its ink inside its rectangle
PathMinX(n) == RMinOf({RMax(RInt(q[1]), n.rect.left) : q \in InkOf(n.pieces)})
PathMinY(n) == RMinOf({RMax(RInt(q[2]), n.rect.top) : q \in InkOf(n.pieces)})

\* lines 720-732 (415-425): the commands whose duplicate is still in the
\* document, looked up by the identifier the duplicate had in the batch
Resolved(d, cmds) ==
    LET found == SelectSeq(cmds, LAMBDA c : getElementById(d, c.objs[1]))
    IN  [k \in 1..Len(found) |->
            [elem |-> found[k].objs[1], page_idx |-> found[k].page_idx,
             page |-> found[k].page, group |-> found[k].group]]

\* a placement that leaves one margin, not two, between neighbours
PlaceTransformSingle(dx, dy, margin, scale, page_idx, trans) ==
    [tx |-> Format6(RAdd(RAdd(dx, margin), RMul(margin, RInt(page_idx[1])))),
     ty |-> Format6(RAdd(RAdd(dy, margin), RMul(margin, RInt(page_idx[2])))),
     scale |-> Format6(scale),
     trans |-> trans]

\* lines 786-789 (467-470): "translate(%f,%f) scale(%f) %s"
PlaceTransform(dx, dy, margin, scale, page_idx, trans) ==
    [tx |-> Format6(RAdd(RAdd(dx, margin),
                         RMul(RMul(margin, RInt(page_idx[1])), RInt(2)))),
     ty |-> Format6(RAdd(RAdd(dy, margin),
                         RMul(RMul(margin, RInt(page_idx[2])), RInt(2)))),
     scale |-> Format6(scale),
     trans |-> trans]

\* lines 746-762 (436-437): a group per selected element under the layer,
\* then the holes group when it is asked for
RECURSIVE AddGroups(_, _, _, _)
AddGroups(acc, layer_id, i, n) ==
    IF i > n THEN acc
    ELSE LET id == FreshId(acc.doc.next)
             d1 == AddNode(acc.doc, id, Node("group", layer_id, <<>>, i, NoTile), TRUE)
         IN  AddGroups([doc |-> [d1 EXCEPT !.next = @ + 1],
                        ids |-> Append(acc.ids, id)], layer_id, i + 1, n)

\* lines 778-794 (461-472): the transform, the page label in the
\* identifier (posterbator.py only), and the move into the element's group
\* a placement that puts every fragment into the first group
PlaceOneFirst(d, x, v, groups, r, dx, dy) ==
    LET t == PlaceTransform(dx, dy, r.margin, r.scale, x.page_idx,
                            d.nodes[x.elem].transform)
        d1 == [d EXCEPT !.nodes[x.elem].transform = t]
        id1 == IF v = "posterbator"
               THEN Joined(get_page_number_str(x.page_idx), x.elem)
               ELSE x.elem
        d2 == IF id1 = x.elem THEN d1 ELSE RenameNode(d1, x.elem, id1)
    IN  MoveNode(d2, id1, groups[1])

PlaceOne(d, x, v, groups, r, dx, dy) ==
    LET t == PlaceTransform(dx, dy, r.margin, r.scale, x.page_idx,
                            d.nodes[x.elem].transform)
        d1 == [d EXCEPT !.nodes[x.elem].transform = t]
        id1 == IF v = "posterbator"
               THEN Joined(get_page_number_str(x.page_idx), x.elem)
               ELSE x.elem
        d2 == IF id1 = x.elem THEN d1 ELSE RenameNode(d1, x.elem, id1)
    IN  MoveNode(d2, id1, groups[x.group])

\* the sliced elements in order (the first half, then the rest)
RECURSIVE PlaceAll(_, _, _, _, _, _, _)
PlaceAll(d, sels, v, groups, r, dx, dy) ==
    IF sels = <<>> THEN d
    ELSE IF Len(sels) = 1 THEN PlaceOne(d, sels[1], v, groups, r, dx, dy)
    ELSE LET mid == Len(sels) \div 2
             first == PlaceAll(d, SubSeq(sels, 1, mid), v, groups, r, dx, dy)
         IN  After(first, PlaceAll(first, SubSeq(sels, mid + 1, Len(sels)), v,
                                   groups, r, dx, dy))

effect_place(v, o, d, cmds, r, e) ==
    LET selections == Resolved(d, cmds)
        picked == {d.nodes[selections[k].elem] : k \in 1..Len(selections)}
    IN  \* the bounding box of an empty selection is None
        IF selections = <<>>
        THEN [tag |-> "AttributeError", msg |-> "sel_bbox.x.minimum"]
        ELSE IF v = "posterbator" /\ ~getElementById(d, e.layer_id)
        THEN [tag |-> "AssertionError", msg |-> "Layer can't be found! Assert!"]
        ELSE
        LET dx == RAdd(RMul(RNeg(RMinOf({PathMinX(n) : n \in picked})), r.scale),
                       RInt(e.x_pos))
            dy == RAdd(RMul(RNeg(RMinOf({PathMinY(n) : n \in picked})), r.scale),
                       RInt(e.y_pos))
            g == AddGroups([doc |-> d, ids |-> <<>>], e.layer_id, 1, Len(e.groups))
            holes == v = "posterbator" /\ o.output_holes_group
            hid == FreshId(g.doc.next)
            d1 == IF holes
                  THEN [AddNode(g.doc, hid, Node("holes", e.layer_id, <<>>, 0, NoTile),
                                TRUE) EXCEPT !.next = @ + 1]
                  ELSE g.doc
        IN  [tag |-> "ok",
             doc |-> PlaceAll(d1, selections, v, g.ids, r, dx, dy),
             selection |-> [k \in 1..Len(selections) |-> selections[k].elem],
             env |-> [e EXCEPT !.groups = g.ids, !.selections = selections,
                               !.dx = dx, !.dy = dy,
                               !.holes_group_id = IF holes THEN hid ELSE <<>>]]

Place ==
    /\ pc = "place"
    /\ LET p == effect_place(variant, opt, doc, path_cmds, res, env) IN
        IF p.tag = "ok"
        THEN /\ doc' = p.doc
             /\ env' = p.env
             /\ selection' = p.selection
             /\ pc' = IF variant = "posterbator" /\ opt.output_holes_group
                      THEN "holes" ELSE "done"
             /\ err' = err
        ELSE /\ err' = [kind |-> p.tag, msg |-> p.msg]
             /\ pc' = "aborted"
             /\ selection' = <<>>
             /\ UNCHANGED <<doc, env>>
    /\ UNCHANGED <<variant, opt, fault, doc0, sel0, res, path_cmds, stdout, sh, trips>>

(***************************************************************************)
(* Inputs                                                                  *)
(***************************************************************************)
\* the unit squares of the box [x0, x1] x [y0, y1]
Box(x0, y0, x1, y1) == {<<x, y>> : x \in x0..(x1 - 1), y \in y0..(y1 - 1)}
BBox(x0, y0, x1, y1) == [x0 |-> x0, y0 |-> y0, x1 |-> x1, y1 |-> y1]

\* a selected element: its bounding box and its path
Element(bbox, pieces) == [bbox |-> bbox, pieces |-> pieces]
Solid(x0, y0, x1, y1) ==
    Element(BBox(x0, y0, x1, y1), <<Piece(Box(x0, y0, x1, y1), {})>>)
\* a filled box with holes cut out
Holed(x0, y0, x1, y1, holes) ==
    Element(BBox(x0, y0, x1, y1),
            <<Piece(Box(x0, y0, x1, y1) \ UNION holes, holes)>>)
\* a straight stroke: a box of no height or no width, and no area
Stroke(x0, y0, x1, y1) == Element(BBox(x0, y0, x1, y1), <<>>)

\* the document that holds the elements els, all children of the root
DocOf(els, pages) ==
    [nodes |-> [id \in {FreshId(k) : k \in 1..Len(els)} |->
                  LET k == CHOOSE k \in 1..Len(els) : FreshId(k) = id
                  IN  [Node("elem", RootId, els[k].pieces, k, NoTile)
                          EXCEPT !.bbox = els[k].bbox]],
     kids |-> (RootId :> [k \in 1..Len(els) |-> FreshId(k)]),
     pages |-> pages,
     viewbox |-> <<210, 297>>,
     next |-> Len(els) + 1]

Option(size, orient, margin, n, mode, holes) ==
    [sheet_size |-> size, sheet_orientation |-> orient, margin |-> margin,
     output_sheets_number |-> n, output_sheet_orientation |-> mode,
     output_holes_group |-> holes]

(***************************************************************************)
(* The engine's other operations                                           *)
(***************************************************************************)
RECURSIVE DocOrder(_, _)
\* the nodes below the containers ids, in document order (later is on top)
DocOrder(d, ids) ==
    IF ids = <<>> THEN <<>>
    ELSE IF Len(ids) = 1
    THEN <<ids[1]>>
         \o (IF IsContainer(d, ids[1]) THEN DocOrder(d, d.kids[ids[1]]) ELSE <<>>)
    ELSE LET mid == Len(ids) \div 2
         IN  DocOrder(d, SubSeq(ids, 1, mid)) \o DocOrder(d, SubSeq(ids, mid + 1, Len(ids)))

\* the objects objs in document order
InDocOrder(d, objs) ==
    SelectSeqBy(DocOrder(d, d.kids[RootId]), {objs[k] : k \in 1..Len(objs)})

RECURSIVE PiecesOfAll(_, _)
PiecesOfAll(d, objs) ==
    IF objs = <<>> THEN <<>>
    ELSE IF Len(objs) = 1 THEN d.nodes[objs[1]].pieces
    ELSE LET mid == Len(objs) \div 2
         IN  PiecesOfAll(d, SubSeq(objs, 1, mid))
             \o PiecesOfAll(d, SubSeq(objs, mid + 1, Len(objs)))

RECURSIVE DeleteAll(_, _)
DeleteAll(d, objs) ==
    IF objs = <<>> THEN d
    ELSE IF Len(objs) = 1 THEN DeleteNode(d, objs[1])
    ELSE LET mid == Len(objs) \div 2
             first == DeleteAll(d, SubSeq(objs, 1, mid))
         IN  After(first, DeleteAll(first, SubSeq(objs, mid + 1, Len(objs))))

\* a combine whose result has the identifier and the place of the lowest path
EngineCombineLowest(d, objs) ==
    LET ordered == InDocOrder(d, objs)
        low == ordered[1]
    IN  IF Len(ordered) < 2 THEN d
        ELSE DeleteAll([d EXCEPT !.nodes[low].pieces = PiecesOfAll(d, ordered)],
                       SubSeq(ordered, 2, Len(ordered)))

\* "comb": the paths become one path that has the identifier and the place
\* of the topmost of them; one path alone stays as it is
EngineCombine(d, objs) ==
    LET ordered == InDocOrder(d, objs)
        top == ordered[Len(ordered)]
    IN  IF Len(ordered) < 2 THEN d
        ELSE DeleteAll([d EXCEPT !.nodes[top].pieces = PiecesOfAll(d, ordered)],
                       SubSeq(ordered, 1, Len(ordered) - 1))

\* a batch of combines by an engine that names each result after the lowest
\* path
RECURSIVE EngineCombineAllLowest(_, _)
EngineCombineAllLowest(d, cmds) ==
    IF cmds = <<>> THEN d
    ELSE IF Len(cmds) = 1 THEN EngineCombineLowest(d, cmds[1].objs)
    ELSE LET mid == Len(cmds) \div 2
             first == EngineCombineAllLowest(d, SubSeq(cmds, 1, mid))
         IN  After(first, EngineCombineAllLowest(first, SubSeq(cmds, mid + 1, Len(cmds))))

\* the commands of the batch in order (the first half, then the rest)
RECURSIVE EngineCombineAll(_, _)
EngineCombineAll(d, cmds) ==
    IF cmds = <<>> THEN d
    ELSE IF Len(cmds) = 1 THEN EngineCombine(d, cmds[1].objs)
    ELSE LET mid == Len(cmds) \div 2
             first == EngineCombineAll(d, SubSeq(cmds, 1, mid))
         IN  After(first, EngineCombineAll(first, SubSeq(cmds, mid + 1, Len(cmds))))

\* ("dup", "comb", "selection-ungroup-pop", "select-list"): duplicates of the
\* paths, combined into one new path that is moved out of its group into
\* the layer and listed on stdout
EngineDupCombineOne(acc, cmd) ==
    LET d == acc.doc
        objs == InDocOrder(d, cmd.objs)
        top == d.nodes[objs[Len(objs)]]
        id == FreshId(d.next)
        mask == [Node("mask", d.nodes[top.parent].parent,
                      PiecesOfAll(d, objs), 0, top.tile)
                    EXCEPT !.rect = top.rect, !.transform = top.transform]
    IN  [doc |-> [AddNode(d, id, mask, FALSE) EXCEPT !.next = @ + 1],
         out |-> Append(acc.out, id)]

RECURSIVE EngineDupCombine(_, _)
EngineDupCombine(acc, cmds) ==
    IF cmds = <<>> THEN acc
    ELSE IF Len(cmds) = 1 THEN EngineDupCombineOne(acc, cmds[1])
    ELSE LET mid == Len(cmds) \div 2
             first == EngineDupCombine(acc, SubSeq(cmds, 1, mid))
         IN  After(first, EngineDupCombine(first, SubSeq(cmds, mid + 1, Len(cmds))))

\* new paths after the path `after`, one per entry of `paths`
RECURSIVE InsertPaths(_, _, _, _)
InsertPaths(d, after, like, paths) ==
    IF paths = <<>> THEN d
    ELSE LET id == FreshId(d.next)
             n == [like EXCEPT !.pieces = <<Head(paths).piece>>,
                               !.role = Head(paths).role]
         IN  InsertPaths([InsertAfter(d, after, id, n) EXCEPT !.next = @ + 1],
                         id, like, Tail(paths))

\* "split": a compound path becomes one path per piece, holes kept; the
\* first keeps the identifier, the others are new siblings
EngineSplitOne(d, cmd) ==
    LET id == cmd.objs[1]
        ps == d.nodes[id].pieces
        rest == [k \in 1..(Len(ps) - 1) |->
                   [piece |-> ps[k + 1], role |-> d.nodes[id].role]]
    IN  IF Len(ps) < 2 THEN d
        ELSE InsertPaths([d EXCEPT !.nodes[id].pieces = <<ps[1]>>],
                         id, d.nodes[id], rest)

RECURSIVE EngineSplit(_, _)
EngineSplit(d, cmds) ==
    IF cmds = <<>> THEN d
    ELSE IF Len(cmds) = 1 THEN EngineSplitOne(d, cmds[1])
    ELSE LET mid == Len(cmds) \div 2
             first == EngineSplit(d, SubSeq(cmds, 1, mid))
         IN  After(first, EngineSplit(first, SubSeq(cmds, mid + 1, Len(cmds))))

RECURSIVE SetToSeq(_)
SetToSeq(S) ==
    IF S = {} THEN <<>>
    ELSE LET x == CHOOSE x \in S : TRUE IN <<x>> \o SetToSeq(S \ {x})

\* "break": every contour becomes a path of its own.  The outline keeps the
\* identifier and is filled; each hole it enclosed is a new sibling
EngineBreakOne(d, cmd) ==
    LET id == cmd.objs[1]
        ps == d.nodes[id].pieces
        holes == SetToSeq(UNION {ps[k].holes : k \in 1..Len(ps)})
        filled == [k \in 1..Len(ps) |->
                     Piece(ps[k].ink \cup UNION ps[k].holes, {})]
        new == [k \in 1..Len(holes) |->
                  [piece |-> Piece(holes[k], {}), role |-> "contour"]]
    IN  InsertPaths([d EXCEPT !.nodes[id].pieces = filled], id, d.nodes[id], new)

RECURSIVE EngineBreak(_, _)
EngineBreak(d, cmds) ==
    IF cmds = <<>> THEN d
    ELSE IF Len(cmds) = 1 THEN EngineBreakOne(d, cmds[1])
    ELSE LET mid == Len(cmds) \div 2
             first == EngineBreak(d, SubSeq(cmds, 1, mid))
         IN  After(first, EngineBreak(first, SubSeq(cmds, mid + 1, Len(cmds))))

\* "diff" on (a, b): a keeps what of it lies outside b, b is used up; with
\* nothing left, a is gone as well
EngineDiffOne(d, cmd) ==
    LET a == cmd.objs[1]
        b == cmd.objs[2]
        left == DiffPieces(d.nodes[a].pieces, InkOf(d.nodes[b].pieces))
        d1 == IF left = <<>> THEN DeleteNode(d, a)
              ELSE [d EXCEPT !.nodes[a].pieces = left]
    IN  \* an identifier that selects nothing leaves the command without effect
        IF ~getElementById(d, a) \/ ~getElementById(d, b) THEN d
        ELSE DeleteNode(d1, b)

RECURSIVE EngineDiff(_, _)
EngineDiff(d, cmds) ==
    IF cmds = <<>> THEN d
    ELSE IF Len(cmds) = 1 THEN EngineDiffOne(d, cmds[1])
    ELSE LET mid == Len(cmds) \div 2
             first == EngineDiff(d, SubSeq(cmds, 1, mid))
         IN  After(first, EngineDiff(first, SubSeq(cmds, mid + 1, Len(cmds))))

(***************************************************************************)
(* separate_holes, between the engine's batches                            *)
(***************************************************************************)
Failed(msg) == [tag |-> "AssertionError", msg |-> msg]

\* dict.setdefault(key, []).append(x) on a dictionary kept in insertion order
SetDefaultAppend(m, key, x) ==
    IF \E k \in 1..Len(m) : m[k].page = key
    THEN [k \in 1..Len(m) |-> IF m[k].page = key
                              THEN [m[k] EXCEPT !.elems = Append(@, x)] ELSE m[k]]
    ELSE Append(m, [page |-> key, elems |-> <<x>>])

RECURSIVE MapElems(_, _)
MapElems(m, elems) ==
    IF elems = <<>> THEN m
    ELSE IF Len(elems) = 1 THEN SetDefaultAppend(m, SplitHead(elems[1]), elems[1])
    ELSE LET mid == Len(elems) \div 2
             first == MapElems(m, SubSeq(elems, 1, mid))
         IN  After(first, MapElems(first, SubSeq(elems, mid + 1, Len(elems))))

\* the children of the groups, group after group
RECURSIVE KidsOfAll(_, _)
KidsOfAll(d, ids) ==
    IF ids = <<>> THEN <<>>
    ELSE IF Len(ids) = 1 THEN d.kids[ids[1]]
    ELSE LET mid == Len(ids) \div 2
         IN  KidsOfAll(d, SubSeq(ids, 1, mid)) \o KidsOfAll(d, SubSeq(ids, mid + 1, Len(ids)))

AllFound(d, ids) == \A k \in 1..Len(ids) : getElementById(d, ids[k])

\* a first phase that builds the masks from the lowest layer alone
sh_map_pages_lowest(d, s) ==
    IF ~AllFound(d, s.group_ids) THEN Failed("Group can't be found! Assert!")
    ELSE LET all == MapElems(<<>>, KidsOfAll(d, s.group_ids))
             low == MapElems(<<>>, KidsOfAll(d, <<s.group_ids[1]>>))
         IN  [tag |-> "ok", doc |-> d,
              sh |-> [s EXCEPT !.page_numbers = [k \in 1..Len(low) |-> low[k].page]],
              cmds |-> [k \in 1..Len(low) |->
                          [objs |-> low[k].elems, op |-> "dupcomb"]]]

\* lines 401-417: the elements by page number, and a duplicate-and-combine
\* command per page
sh_map_pages(d, s) ==
    IF ~AllFound(d, s.group_ids) THEN Failed("Group can't be found! Assert!")
    ELSE LET elems_map == MapElems(<<>>, KidsOfAll(d, s.group_ids))
         IN  [tag |-> "ok", doc |-> d,
              sh |-> [s EXCEPT !.page_numbers =
                                  [k \in 1..Len(elems_map) |-> elems_map[k].page]],
              cmds |-> [k \in 1..Len(elems_map) |->
                          [objs |-> elems_map[k].elems, op |-> "dupcomb"]]]

\* the identifiers the engine listed, given to the pages from the last page
\* backwards
RECURSIVE MapDupsFromLast(_, _, _, _)
MapDupsFromLast(acc, ids, i, page_numbers) ==
    IF i > Len(ids) \/ i > Len(page_numbers) THEN acc
    ELSE IF ~getElementById(acc.doc, ids[i]) THEN Failed("Elem can't be found! Assert!")
    ELSE LET page == page_numbers[Len(page_numbers) - i + 1]
             id_str == Joined(page, ids[i])
             next == [acc EXCEPT !.doc = RenameNode(acc.doc, ids[i], id_str),
                                 !.map = (page :> id_str) @@ acc.map]
         IN  After(next, MapDupsFromLast(next, ids, i + 1, page_numbers))

\* lines 423-433: the identifiers the engine listed, taken page by page in
\* the order of the batch; each is renamed with its page number in front
RECURSIVE MapDups(_, _, _, _)
MapDups(acc, ids, i, page_numbers) ==
    IF i > Len(ids) THEN acc
    ELSE IF ~getElementById(acc.doc, ids[i]) THEN Failed("Elem can't be found! Assert!")
    ELSE IF i > Len(page_numbers) THEN [tag |-> "IndexError", msg |-> "page_numbers[i]"]
    ELSE LET id_str == Joined(page_numbers[i], ids[i])
             next == [acc EXCEPT !.doc = RenameNode(acc.doc, ids[i], id_str),
                                 !.map = (page_numbers[i] :> id_str) @@ acc.map]
         IN  After(next, MapDups(next, ids, i + 1, page_numbers))

\* lines 460-477: every element of a group goes into a nested group of its
\* own, named after the element's page number
NestElem(acc, group_id, elem) ==
    LET d == acc.doc
        nested == Joined(SplitHead(elem), FreshId(d.next))
        d1 == AddNode(d, nested, Node("nested", group_id, <<>>,
                                      d.nodes[elem].src, d.nodes[elem].tile), TRUE)
    IN  [doc |-> [MoveNode(d1, elem, nested) EXCEPT !.next = @ + 1],
         nested |-> Append(acc.nested, nested),
         cmds |-> Append(acc.cmds, [objs |-> <<elem>>, op |-> "split"])]

RECURSIVE NestElems(_, _, _)
NestElems(acc, group_id, elems) ==
    IF elems = <<>> THEN acc
    ELSE IF Len(elems) = 1 THEN NestElem(acc, group_id, elems[1])
    ELSE LET mid == Len(elems) \div 2
             first == NestElems(acc, group_id, SubSeq(elems, 1, mid))
         IN  After(first, NestElems(first, group_id, SubSeq(elems, mid + 1, Len(elems))))

RECURSIVE NestGroups(_, _)
NestGroups(acc, group_ids) ==
    IF group_ids = <<>> THEN acc
    ELSE NestGroups(NestElems(acc, Head(group_ids), acc.doc.kids[Head(group_ids)]),
                    Tail(group_ids))

\* lines 423-477
sh_nest(d, out, s) ==
    LET dup_elem_ids == inkscape_stdout_to_ids(out)
        m == MapDups([tag |-> "ok", doc |-> d, map |-> <<>>], dup_elem_ids, 1,
                     s.page_numbers)
    IN  IF m.tag /= "ok" THEN m
        ELSE IF ~AllFound(m.doc, s.group_ids) THEN Failed("Group can't be found! Assert!")
        ELSE LET n == NestGroups([doc |-> m.doc, nested |-> <<>>, cmds |-> <<>>],
                                 s.group_ids)
             IN  [tag |-> "ok", doc |-> n.doc,
                  sh |-> [s EXCEPT !.dup_elems_map = m.map, !.nested_groups = n.nested],
                  cmds |-> n.cmds]

\* lines 487-499: what the nested groups hold after the split is known
sh_known(d, s) ==
    IF ~AllFound(d, s.group_ids) THEN Failed("Group can't be found! Assert!")
    ELSE LET elems == KidsOfAll(d, KidsOfAll(d, s.group_ids))
         IN  [tag |-> "ok", doc |-> d,
              sh |-> [s EXCEPT !.known = {elems[k] : k \in 1..Len(elems)}],
              cmds |-> [k \in 1..Len(elems) |-> [objs |-> <<elems[k]>>, op |-> "break"]]]

\* a search that takes all that a nested group holds for holes
RECURSIVE FindHolesAll(_, _, _, _)
FindHolesAll(m, d, nested, known) ==
    IF nested = <<>> THEN m
    ELSE IF Len(nested) = 1
    THEN LET news == d.kids[nested[1]]
             RECURSIVE PutAll(_, _)
             PutAll(mm, ids) == IF ids = <<>> THEN mm
                                ELSE PutAll(SetDefaultAppend(mm, SplitHead(nested[1]),
                                                             Head(ids)), Tail(ids))
         IN  PutAll(m, news)
    ELSE LET mid == Len(nested) \div 2
             first == FindHolesAll(m, d, SubSeq(nested, 1, mid), known)
         IN  After(first, FindHolesAll(first, d, SubSeq(nested, mid + 1, Len(nested)),
                                       known))

\* lines 509-523: what a nested group holds and was not known is a hole of
\* the group's page
RECURSIVE FindHoles(_, _, _, _)
FindHoles(m, d, nested, known) ==
    IF nested = <<>> THEN m
    ELSE IF Len(nested) = 1
    THEN LET news == SelectSeq(d.kids[nested[1]], LAMBDA id : id \notin known)
             RECURSIVE Put(_, _)
             Put(mm, ids) == IF ids = <<>> THEN mm
                             ELSE Put(SetDefaultAppend(mm, SplitHead(nested[1]),
                                                       Head(ids)), Tail(ids))
         IN  Put(m, news)
    ELSE LET mid == Len(nested) \div 2
             first == FindHoles(m, d, SubSeq(nested, 1, mid), known)
         IN  After(first, FindHoles(first, d, SubSeq(nested, mid + 1, Len(nested)),
                                    known))

\* a phase that combines the holes of a page only when there are three
sh_find_holes_from_three(d, s) ==
    IF ~AllFound(d, s.nested_groups) THEN Failed("Group can't be found! Assert!")
    ELSE LET hole_map == FindHoles(<<>>, d, s.nested_groups, s.known)
             many == SelectSeq(hole_map, LAMBDA e : Len(e.elems) > 2)
         IN  [tag |-> "ok", doc |-> d, sh |-> [s EXCEPT !.hole_map = hole_map],
              cmds |-> [k \in 1..Len(many) |-> [objs |-> many[k].elems, op |-> "comb"]]]

\* lines 509-529
sh_find_holes(d, s) ==
    IF ~AllFound(d, s.nested_groups) THEN Failed("Group can't be found! Assert!")
    ELSE LET hole_map == FindHoles(<<>>, d, s.nested_groups, s.known)
             many == SelectSeq(hole_map, LAMBDA e : Len(e.elems) > 1)
         IN  [tag |-> "ok", doc |-> d, sh |-> [s EXCEPT !.hole_map = hole_map],
              cmds |-> [k \in 1..Len(many) |-> [objs |-> many[k].elems, op |-> "comb"]]]

\* holes that stay where they were found
MoveHolesNowhere(acc, hole_map, holes_group) == acc

\* lines 543-561: the last hole of each page, looked up by the identifier it
\* had when it was found, is renamed with its page number in front and moved
\* into the holes group
RECURSIVE MoveHoles(_, _, _)
MoveHoles(acc, hole_map, holes_group) ==
    IF hole_map = <<>> \/ acc.tag /= "ok" THEN acc
    ELSE IF Len(hole_map) = 1
    THEN LET holes == hole_map[1].elems
             id_str == holes[Len(holes)]
             new == Joined(hole_map[1].page, id_str)
         IN  IF ~getElementById(acc.doc, id_str)
             THEN Failed("Hole path can't be found! Assert!")
             ELSE [acc EXCEPT !.doc = MoveNode(RenameNode(acc.doc, id_str, new),
                                               new, holes_group)]
    ELSE LET mid == Len(hole_map) \div 2
             first == MoveHoles(acc, SubSeq(hole_map, 1, mid), holes_group)
         IN  After(first, MoveHoles(first, SubSeq(hole_map, mid + 1, Len(hole_map)),
                                    holes_group))

\* lines 534-578
sh_move_holes(d, s, holes_group_id) ==
    IF ~getElementById(d, holes_group_id)
    THEN Failed("Holes group can't be found! Assert!")
    ELSE LET m == MoveHoles([tag |-> "ok", doc |-> d], s.hole_map, holes_group_id)
         IN  IF m.tag /= "ok" THEN m
             ELSE IF ~AllFound(m.doc, s.nested_groups)
             THEN Failed("Group can't be found! Assert!")
             ELSE [tag |-> "ok", doc |-> m.doc, sh |-> s,
                   cmds |-> [k \in 1..Len(s.nested_groups) |->
                               [objs |-> m.doc.kids[s.nested_groups[k]], op |-> "comb"]]]

RECURSIVE MoveAll(_, _, _)
MoveAll(d, ids, parent) ==
    IF ids = <<>> THEN d
    ELSE IF Len(ids) = 1 THEN MoveNode(d, ids[1], parent)
    ELSE LET mid == Len(ids) \div 2
             first == MoveAll(d, SubSeq(ids, 1, mid), parent)
         IN  After(first, MoveAll(first, SubSeq(ids, mid + 1, Len(ids)), parent))

\* a last phase that leaves the nested groups as they are
ReparentNowhere(d, nested) == d

\* lines 586-596: the children of a nested group go back to its parent and
\* the nested group is deleted
RECURSIVE Reparent(_, _)
Reparent(d, nested) ==
    IF nested = <<>> THEN d
    ELSE IF Len(nested) = 1
    THEN DeleteNode(MoveAll(d, d.kids[nested[1]], d.nodes[nested[1]].parent), nested[1])
    ELSE LET mid == Len(nested) \div 2
             first == Reparent(d, SubSeq(nested, 1, mid))
         IN  After(first, Reparent(first, SubSeq(nested, mid + 1, Len(nested))))

\* a last phase that issues no difference
DiffCmdsNone(acc, d, holes, map) == acc

\* lines 609-621: a difference command per hole of the holes group, against
\* the combined duplicate recorded for the hole's page
RECURSIVE DiffCmds(_, _, _, _)
DiffCmds(acc, d, holes, map) ==
    IF holes = <<>> \/ acc.tag /= "ok" THEN acc
    ELSE IF Len(holes) = 1
    THEN LET page_number == SplitHead(holes[1]) IN
         IF page_number \notin DOMAIN map
         THEN Failed("Page number is not found in dup map! Assert!")
         ELSE IF ~getElementById(d, map[page_number])
         THEN Failed("Dup elem can't be found! Assert!")
         ELSE [acc EXCEPT !.cmds = Append(@, [objs |-> <<holes[1], map[page_number]>>,
                                              op |-> "diff"])]
    ELSE LET mid == Len(holes) \div 2
             first == DiffCmds(acc, d, SubSeq(holes, 1, mid), map)
         IN  After(first, DiffCmds(first, d, SubSeq(holes, mid + 1, Len(holes)), map))

\* lines 586-621
sh_reparent(d, s, holes_group_id) ==
    IF ~AllFound(d, s.nested_groups) THEN Failed("Group can't be found! Assert!")
    ELSE LET d1 == Reparent(d, s.nested_groups) IN
         IF ~getElementById(d1, holes_group_id)
         THEN Failed("Holes group can't be found! Assert!")
         ELSE LET c == DiffCmds([tag |-> "ok", cmds |-> <<>>], d1,
                                d1.kids[holes_group_id], s.dup_elems_map)
              IN  IF c.tag /= "ok" THEN c
                  ELSE [tag |-> "ok", doc |-> d1, sh |-> s, cmds |-> c.cmds]

\* one step of separate_holes between two batches: its outcome `step`
\* becomes the state, or the exception ends the run
ShStep(at, step, next) ==
    /\ pc = at
    /\ IF step.tag = "ok"
       THEN /\ doc' = step.doc
            /\ sh' = step.sh
            /\ path_cmds' = step.cmds
            /\ pc' = next
            /\ err' = err
       ELSE /\ err' = [kind |-> step.tag, msg |-> step.msg]
            /\ pc' = "aborted"
            /\ UNCHANGED <<doc, sh, path_cmds>>
    /\ UNCHANGED <<variant, opt, fault, doc0, sel0, selection, res, env, stdout, trips>>

\* line 826 and lines 401-417
MapPages ==
    ShStep("holes", sh_map_pages(doc, [sh EXCEPT !.group_ids = env.groups]), "rt_mask")
Nest == ShStep("masks", sh_nest(doc, stdout, sh), "rt_split")
Known == ShStep("split", sh_known(doc, sh), "rt_break")
Holes == ShStep("broken", sh_find_holes(doc, sh), "rt_comb_holes")
MoveToHolesGroup ==
    ShStep("holes_combined", sh_move_holes(doc, sh, env.holes_group_id), "rt_comb")
ReparentAll == ShStep("combined", sh_reparent(doc, sh, env.holes_group_id), "rt_diff")

(***************************************************************************)
(* run_pathops (lines 313-331; lines 396-410 of posterbation.py): the      *)
(* document is saved, the engine runs the batch, the document is loaded    *)
(* again.  A faulty engine departs from its contract in one way.           *)
(***************************************************************************)
\* an engine that leaves every identifier as it is
ReassignNothing(d, id) == d

\* the engine gives an object another identifier
Reassign(d, id) == [RenameNode(d, id, FreshId(d.next)) EXCEPT !.next = @ + 1]

Faults == {"none", "fewer_ids", "stale_id", "lost_group", "lost_nested",
           "lost_holes_group", "bottom_id", "lost_mask"}

\* "comb" by an engine that names the result after the lowest path
EngineCombineLow(d, objs) ==
    LET ordered == InDocOrder(d, objs)
        d1 == EngineCombine(d, objs)
    IN  IF Len(ordered) < 2 THEN d
        ELSE RenameNode(d1, ordered[Len(ordered)], ordered[1])

RECURSIVE EngineCombineAllLow(_, _)
EngineCombineAllLow(d, cmds) ==
    IF cmds = <<>> THEN d
    ELSE EngineCombineAllLow(EngineCombineLow(d, Head(cmds).objs), Tail(cmds))

\* the document and the output after the batch cmds of the phase `at`
Engine(at, d, cmds, f, e, s) ==
    CASE at = "slice" -> [doc |-> EngineInter(d, cmds), out |-> <<>>]
      [] at = "rt_mask" ->
            LET r == EngineDupCombine([doc |-> d, out |-> <<>>], cmds)
                n == Len(r.out)
                listed == IF f = "fewer_ids" /\ n > 0
                          THEN SubSeq(r.out, 1, n - 1) ELSE r.out
            IN  [doc |-> IF f = "stale_id" /\ n > 0
                         THEN Reassign(r.doc, r.out[n]) ELSE r.doc,
                 out |-> [k \in 1..Len(listed) |-> SelectListLine(listed[k])]]
      [] at = "rt_split" ->
            LET d1 == EngineSplit(d, cmds)
            IN  [doc |-> IF f = "lost_group" THEN Reassign(d1, s.group_ids[1]) ELSE d1,
                 out |-> <<>>]
      [] at = "rt_break" ->
            LET d1 == EngineBreak(d, cmds)
            IN  [doc |-> IF f = "lost_nested" /\ s.nested_groups /= <<>>
                         THEN Reassign(d1, s.nested_groups[1]) ELSE d1,
                 out |-> <<>>]
      [] at = "rt_comb_holes" ->
            [doc |-> IF f = "bottom_id" THEN EngineCombineAllLow(d, cmds)
                     ELSE IF f = "lost_holes_group"
                     THEN Reassign(EngineCombineAll(d, cmds), e.holes_group_id)
                     ELSE EngineCombineAll(d, cmds),
             out |-> <<>>]
      [] at = "rt_comb" ->
            LET d1 == EngineCombineAll(d, cmds)
            IN  [doc |-> IF f = "lost_mask" /\ s.page_numbers /= <<>>
                            /\ s.page_numbers[1] \in DOMAIN s.dup_elems_map
                         THEN Reassign(d1, s.dup_elems_map[s.page_numbers[1]])
                         ELSE d1,
                 out |-> <<>>]
      [] at = "rt_diff" -> [doc |-> EngineDiff(d, cmds), out |-> <<>>]

\* a run that goes from the break-apart batch straight to the holes group
AfterBatchUncombined(at) ==
    CASE at = "slice" -> "place"
      [] at = "rt_mask" -> "masks"
      [] at = "rt_split" -> "split"
      [] at = "rt_break" -> "holes_combined"
      [] at = "rt_comb_holes" -> "holes_combined"
      [] at = "rt_comb" -> "combined"
      [] at = "rt_diff" -> "done"

\* where the run goes on after the batch of the phase `at`
AfterBatch(at) ==
    CASE at = "slice" -> "place"
      [] at = "rt_mask" -> "masks"
      [] at = "rt_split" -> "split"
      [] at = "rt_break" -> "broken"
      [] at = "rt_comb_holes" -> "holes_combined"
      [] at = "rt_comb" -> "combined"
      [] at = "rt_diff" -> "done"

Batches == {"slice", "rt_mask", "rt_split", "rt_break", "rt_comb_holes",
            "rt_comb", "rt_diff"}

RunPathops ==
    /\ pc \in Batches
    /\ LET r == Engine(pc, doc, path_cmds, fault, env, sh) IN
        /\ doc' = r.doc
        /\ stdout' = r.out
    /\ trips' = Append(trips, pc)
    /\ pc' = AfterBatch(pc)
    /\ UNCHANGED <<variant, opt, fault, doc0, sel0, selection, err, res, env,
                   path_cmds, sh>>

(***************************************************************************)
(* The runs that are checked                                               *)
(***************************************************************************)
\* the side of the drawing area the selected shapes lie on
MaxBox == 4
\* the number of selected elements, at most
MaxSel == 2

Sizes == {"A4", "A3"}
Orientations == {"portrait", "landscape"}
Modes == {"wide", "high"}
Margins == {RInt(-1), RInt(0), <<1, 128>>, RInt(10), RInt(50), RInt(51)}
SheetNumbers == {<<1, 2>>, RInt(1), <<3, 2>>, RInt(4), RInt(10), RInt(11)}

\* the shapes: a filled square, a square with one hole, with two holes, the
\* cover of half of the one hole, a compound of two corners
Full == Solid(0, 0, MaxBox, MaxBox)
Ring == Holed(0, 0, MaxBox, MaxBox, {{<<1, 1>>, <<2, 1>>}})
DoubleRing == Holed(0, 0, MaxBox, MaxBox, {{<<1, 1>>}, {<<MaxBox - 2, MaxBox - 2>>}})
Half == Solid(1, 1, 2, 2)
Corners == Element(BBox(0, 0, MaxBox, MaxBox),
                   <<Piece(Box(0, 0, 1, 1), {}),
                     Piece(Box(MaxBox - 1, MaxBox - 1, MaxBox, MaxBox), {})>>)
Shapes == {Full, Ring, DoubleRing, Half, Corners}

Selections == UNION {[1..n -> Shapes] : n \in 1..MaxSel}

Input(v, o, f, els, pages) ==
    [variant |-> v, opt |-> o, fault |-> f, els |-> els, pages |-> pages]

A4Page == [x |-> 0, y |-> 0, width |-> 210, height |-> 297]

\* a strip along the direction the sheets are counted in
Strip(md) == IF md = "wide" THEN Solid(0, 0, 20, 1) ELSE Solid(0, 0, 1, 20)

\* what is selected in the runs over the options: nothing, a strip, a
\* horizontal stroke, a vertical stroke
Picked(md, k) ==
    CASE k = 1 -> <<>>
      [] k = 2 -> <<Strip(md)>>
      [] k = 3 -> <<Stroke(0, 1, 2, 1)>>
      [] k = 4 -> <<Stroke(1, 0, 1, 2)>>

\* every combination of options
OptionRuns ==
    {Input(v, Option(sz, so, m, n, md, FALSE), "none", Picked(md, k), <<>>) :
        v \in {"posterbator", "posterbation"}, sz \in Sizes, so \in Orientations,
        m \in Margins, n \in SheetNumbers, md \in Modes, k \in 1..4}

\* accepted options on boxes of every size
BoxRuns ==
    {Input(v, Option("A4", so, m, n, md, FALSE), "none",
           <<Solid(0, 0, w, h)>>, <<>>) :
        v \in {"posterbator", "posterbation"}, so \in Orientations,
        m \in {RInt(0), <<1, 128>>, RInt(50)},
        n \in {RInt(1), <<3, 2>>, RInt(3)}, md \in Modes,
        w \in 1..MaxBox, h \in 1..MaxBox}

\* the hole corrector on every selection
ShapeRuns ==
    {Input(v, Option("A4", g[1], RInt(10), g[2], g[3], TRUE), "none", els, <<>>) :
        v \in {"posterbator", "posterbation"},
        g \in {<<"landscape", RInt(1), "wide">>, <<"landscape", RInt(1), "high">>,
               <<"landscape", <<3, 2>>, "wide">>, <<"portrait", RInt(1), "high">>},
        els \in Selections}

\* a faulty engine, and a document that has a page
FaultRuns ==
    {Input("posterbator", Option("A4", "landscape", RInt(10), n, "wide", TRUE),
           f, els, pages) :
        n \in {RInt(1), <<3, 2>>}, f \in Faults,
        els \in {<<Ring>>, <<Ring, Half>>, <<DoubleRing, Ring>>, <<Corners, Ring>>},
        pages \in {<<>>, <<A4Page>>}}

\* the worked example: a line from corner to corner of a box 1000 wide and
\* 500 high, four A4 landscape sheets with margin 10
Diagonal == Stroke(0, 0, 1000, 500)
ScenarioRuns ==
    {Input(v, Option("A4", "landscape", RInt(10), RInt(4), md, FALSE), "none",
           <<Diagonal>>, <<>>) :
        v \in {"posterbator", "posterbation"}, md \in Modes}

\* a poster of 28 columns: a band 93 wide and 5 high on portrait sheets, one
\* sheet high, with a hole in its last column
LongBand == Holed(0, 0, 93, 5, {{<<90, 2>>}})
WideRuns ==
    {Input(v, Option("A4", "portrait", RInt(10), RInt(1), "high", TRUE), "none",
           <<LongBand>>, <<>>) :
        v \in {"posterbator", "posterbation"}}

Inputs == OptionRuns \cup BoxRuns \cup ShapeRuns \cup FaultRuns \cup ScenarioRuns \cup WideRuns

Init ==
    \E i \in Inputs :
        /\ variant = i.variant
        /\ opt = i.opt
        /\ fault = i.fault
        /\ doc0 = DocOf(i.els, i.pages)
        /\ doc = doc0
        /\ sel0 = doc0.kids[RootId]
        /\ selection = sel0
        /\ pc = "start"
        /\ err = NoErr
        /\ res = NoRes
        /\ env = NoEnv
        /\ path_cmds = <<>>
        /\ stdout = <<>>
        /\ sh = NoSh
        /\ trips = <<>>

Next ==
    \/ Begin
    \/ RunPathops
    \/ Place
    \/ MapPages
    \/ Nest
    \/ Known
    \/ Holes
    \/ MoveToHolesGroup
    \/ ReparentAll

Spec == Init /\ [][Next]_vars

(***************************************************************************)
(* What the properties speak of                                            *)
(***************************************************************************)
\* the bounding box of the selection the run found
SelBox == SelectionBBox(doc0, sel0)

\* The selection's extent on each axis, read off the document as found.
SelWidth == RInt(SelBox.x1 - SelBox.x0)
SelHeight == RInt(SelBox.y1 - SelBox.y0)
PositiveBox == SelBox.x1 > SelBox.x0 /\ SelBox.y1 > SelBox.y0

Right(r) == RAdd(r.left, r.width)
Bottom(r) == RAdd(r.top, r.height)

\* the tiles of the plan, and the rectangle of a tile
Tiles ==
    IF res.tag = "ok"
    THEN {<<i, j>> : i \in 0..(res.sheets_n[1] - 1), j \in 0..(res.sheets_n[2] - 1)}
    ELSE {}
TileRect(t) == SliceRect(SelBox, res.slice_rect_size, t)

\* the selected element k within the tile t, the ink of all of them there,
\* and the area of the holes they have there
Sliced(k, t) == ClipPieces(doc0.nodes[sel0[k]].pieces, TileRect(t))
SlicedInk(t) == UNION {InkOf(Sliced(k, t)) : k \in 1..Len(sel0)}
SlicedHoles(k, t) == UNION {Sliced(k, t)[p].holes : p \in 1..Len(Sliced(k, t))}
CandidateArea(t) == UNION {UNION SlicedHoles(k, t) : k \in 1..Len(sel0)}

\* the slicing rectangles in the document
SliceRects ==
    {doc.nodes[id].rect : id \in {x \in DOMAIN doc.nodes : doc.nodes[x].role = "rect"}}

\* the options the planner has to reject, and its ways of saying so
Unsupported(o) ==
    \/ o.sheet_size /= "A4"
    \/ RLt(o.output_sheets_number, RInt(1)) \/ RLt(RInt(10), o.output_sheets_number)
    \/ RLt(o.margin, RInt(0)) \/ RLt(RInt(50), o.margin)
ConfigurationErrors ==
    {"Incorrect sheet size!", "Incorrect sheets number!", "Incorrect margin!"}
Stopped == pc \in {"aborted", "returned"}
Untouched == doc = doc0 /\ trips = <<>>

\* the fragments are placed and nothing has happened since
Placed == pc \in {"holes", "done"} /\ trips = <<"slice">>
FragmentsOf(k, t) ==
    {id \in DOMAIN doc.nodes :
        /\ doc.nodes[id].role = "dup"
        /\ doc.nodes[id].src = k
        /\ doc.nodes[id].tile = t}
Fragments == {id \in DOMAIN doc.nodes : doc.nodes[id].role = "dup"}

\* the hole corrector came to its end, the engine keeping its contract
Corrected ==
    /\ variant = "posterbator"
    /\ opt.output_holes_group
    /\ fault = "none"
    /\ pc = "done"
\* what the holes group holds for the tile t
HoleInk(t) ==
    UNION {InkOf(doc.nodes[id].pieces) :
             id \in {x \in DOMAIN doc.nodes :
                       /\ doc.nodes[x].parent = env.holes_group_id
                       /\ doc.nodes[x].tile = t}}

\* a - b in millionths, for two numbers written with six decimals
MicroDiff(a, b) == (a[1] - b[1]) * 1000000 + (a[2] - b[2])
\* the distance from the right edge of the placed rectangle of fragment a
\* to the left edge of that of fragment b, and the same downwards
GapX(a, b) ==
    RAdd(RMul(Parse6(a.transform.scale), RSub(b.rect.left, Right(a.rect))),
         RNorm(MicroDiff(b.transform.tx, a.transform.tx), 1000000))
GapY(a, b) ==
    RAdd(RMul(Parse6(a.transform.scale), RSub(b.rect.top, Bottom(a.rect))),
         RNorm(MicroDiff(b.transform.ty, a.transform.ty), 1000000))
RightOf(a) == {b \in Fragments : doc.nodes[b].tile = <<doc.nodes[a].tile[1] + 1,
                                                      doc.nodes[a].tile[2]>>}
Below(a) == {b \in Fragments : doc.nodes[b].tile = <<doc.nodes[a].tile[1],
                                                    doc.nodes[a].tile[2] + 1>>}
RAbs(a) == <<Abs(a[1]), a[2]>>
TwoMargins == RMul(RInt(2), opt.margin)

(***************************************************************************)
(* Properties                                                              *)
(***************************************************************************)
\* C1: for an accepted configuration and a selection box of positive width
\* and height, the slicing rectangles are the nWide x nHigh rectangles of the
\* plan, one starts at the box's corner, each one that ends before the box's
\* right (lower) edge has a neighbour that starts exactly where it ends, and
\* nWide * tileW >= width, nHigh * tileH >= height: the rectangles cover the
\* box without a gap.
C1_TilesCoverSelection ==
    (pc = "slice" /\ PositiveBox) =>
        LET R == SliceRects
            b == SelBox
        IN  /\ Cardinality(R) = res.sheets_n[1] * res.sheets_n[2]
            /\ \A r \in R : /\ r.width = res.slice_rect_size[1]
                            /\ r.height = res.slice_rect_size[2]
            /\ \E r \in R : r.left = RInt(b.x0) /\ r.top = RInt(b.y0)
            /\ \A r \in R :
                 \/ RLe(RInt(b.x1), Right(r))
                 \/ \E q \in R : q.left = Right(r) /\ q.top = r.top
            /\ \A r \in R :
                 \/ RLe(RInt(b.y1), Bottom(r))
                 \/ \E q \in R : q.top = Bottom(r) /\ q.left = r.left
            /\ RLe(RInt(b.x1 - b.x0), RMul(RInt(res.sheets_n[1]), res.slice_rect_size[1]))
            /\ RLe(RInt(b.y1 - b.y0), RMul(RInt(res.sheets_n[2]), res.slice_rect_size[2]))

\* a poster of one and a half sheets: several rectangles, the last column
\* reaching beyond the box
C1_Witness ==
    /\ pc = "slice"
    /\ PositiveBox
    /\ opt.output_sheets_number = <<3, 2>>
    /\ Cardinality(SliceRects) > 2
    /\ RLt(SelWidth, RMul(RInt(res.sheets_n[1]), res.slice_rect_size[1]))

\* C2: once the hole corrector has finished, what the holes group holds for
\* a page shares no area with any selected element's part on that page, and
\* is the area of the page's hole candidates minus the area of all those
\* parts, whatever the number of layers and their overlap.
C2_HolesClearOfFragments ==
    Corrected =>
        \A t \in Tiles :
            /\ HoleInk(t) \cap SlicedInk(t) = {}
            /\ HoleInk(t) = CandidateArea(t) \ SlicedInk(t)

\* two layers or more, a hole partly covered by another layer, the rest of
\* it in the holes group
C2_Witness ==
    /\ Corrected
    /\ Len(sel0) >= 2
    /\ \E t \in Tiles : /\ HoleInk(t) /= {}
                        /\ CandidateArea(t) \cap SlicedInk(t) /= {}

\* C3: with two layers selected, a hole of the bottom layer that the top
\* layer's fill covers entirely on a page leaves nothing in the holes group
\* on that page.
C3_CoveredHoleRemoved ==
    (Corrected /\ Len(sel0) = 2) =>
        \A t \in Tiles : \A h \in SlicedHoles(1, t) :
            h \subseteq InkOf(Sliced(2, t)) => HoleInk(t) \cap h = {}

\* the bottom layer has a covered hole and an open one on the same page: the
\* open one is in the holes group
C3_Witness ==
    /\ Corrected
    /\ Len(sel0) = 2
    /\ \E t \in Tiles : /\ \E h \in SlicedHoles(1, t) : h \subseteq InkOf(Sliced(2, t))
                        /\ HoleInk(t) /= {}

\* C4: with something selected, options outside the accepted ranges (sheet
\* count below 1 or above 10, margin below 0 or above 50, a sheet size other
\* than A4) end the run with the planner's rejection, the document as it was
\* and no batch run; options within the ranges, their ends included, are
\* never rejected.
C4_InvalidConfigurationRejected ==
    (sel0 /= <<>> /\ pc /= "start") =>
        IF Unsupported(opt)
        THEN Stopped /\ err.msg \in ConfigurationErrors /\ Untouched
        ELSE err.msg \notin ConfigurationErrors

\* eleven sheets are rejected
C4_Witness ==
    /\ sel0 /= <<>>
    /\ opt.output_sheets_number = RInt(11)
    /\ opt.margin = RInt(50)
    /\ Stopped
    /\ err.msg = "Incorrect sheets number!"

C6_MissingMaskAborts ==
    Len(trips) >= 3 =>
        \A k \in 1..Len(sh.page_numbers) : sh.page_numbers[k] \in DOMAIN sh.dup_elems_map

\* C7: with nothing selected the run ends with "Please select objects!", the
\* planner not evaluated, the document as it was, no batch run, whether or
\* not the options are acceptable.
C7_EmptySelectionFirst ==
    (sel0 = <<>> /\ pc /= "start") =>
        /\ Stopped
        /\ err.msg = "Please select objects!"
        /\ res = NoRes
        /\ Untouched

\* nothing selected and options the planner would reject
C7_Witness ==
    /\ sel0 = <<>>
    /\ Unsupported(opt)
    /\ Stopped

\* C8 as stated: the placed rectangles of neighbouring tiles are exactly
\* 2 * margin apart, across and down.
C8_GapIsTwoMargins ==
    Placed =>
        \A a \in Fragments :
            /\ \A b \in RightOf(a) : GapX(doc.nodes[a], doc.nodes[b]) = TwoMargins
            /\ \A b \in Below(a) : GapY(doc.nodes[a], doc.nodes[b]) = TwoMargins

\* C8: the placed rectangles of neighbouring tiles are 2 * margin apart up
\* to one millionth (the translations are written with six decimals), across
\* and down, in both modes.
C8_GapWithinOneMillionth ==
    Placed =>
        \A a \in Fragments :
            /\ \A b \in RightOf(a) :
                 RLe(RAbs(RSub(GapX(doc.nodes[a], doc.nodes[b]), TwoMargins)),
                     <<1, 1000000>>)
            /\ \A b \in Below(a) :
                 RLe(RAbs(RSub(GapY(doc.nodes[a], doc.nodes[b]), TwoMargins)),
                     <<1, 1000000>>)

\* a margin of 1/128: neighbours across and down, a gap that is not 2/128
C8_Witness ==
    /\ Placed
    /\ \E a \in Fragments :
         /\ \E b \in RightOf(a) : GapX(doc.nodes[a], doc.nodes[b]) /= TwoMargins
         /\ Below(a) /= {}

\* C9 as stated: scale * (sheet interior on the chosen axis) = (tile count
\* on that axis) * (selection size on that axis).
C9_ScaleTimesInterior ==
    res.tag = "ok" =>
        IF opt.output_sheet_orientation = "wide"
        THEN RMul(res.scale, RSub(RInt(res.sheet_size[1]), TwoMargins))
                = RMul(RInt(res.sheets_n[1]), SelWidth)
        ELSE RMul(res.scale, RSub(RInt(res.sheet_size[2]), TwoMargins))
                = RMul(RInt(res.sheets_n[2]), SelHeight)

\* C9: scale * (selection size on the chosen axis) = (requested sheet
\* count) * (sheet interior on that axis): the scaled selection spans the
\* requested number of sheet interiors.
C9_ScaledSelectionSpansSheets ==
    res.tag = "ok" =>
        IF opt.output_sheet_orientation = "wide"
        THEN RMul(res.scale, SelWidth)
                = RMul(opt.output_sheets_number,
                       RSub(RInt(res.sheet_size[1]), TwoMargins))
        ELSE RMul(res.scale, SelHeight)
                = RMul(opt.output_sheets_number,
                       RSub(RInt(res.sheet_size[2]), TwoMargins))

\* one and a half sheets high of a box that is not a square
C9_Witness ==
    /\ res.tag = "ok"
    /\ opt.output_sheet_orientation = "high"
    /\ opt.output_sheets_number = <<3, 2>>
    /\ SelWidth /= SelHeight

\* C10: with something selected and accepted options, the planner returns a
\* plan whose tile width and height are positive; it does not end in a
\* division by zero, whatever the selection's box.
C10_NoDivisionByZero ==
    (sel0 /= <<>> /\ ~Unsupported(opt) /\ pc /= "start") =>
        /\ res.tag = "ok"
        /\ RLt(RInt(0), res.slice_rect_size[1])
        /\ RLt(RInt(0), res.slice_rect_size[2])


\* the worked example of the planner: A4 landscape (297 x 210), margin 10,
\* four sheets wide, a selection box of 1000 x 500
Scenario ==
    /\ opt.sheet_size = "A4"
    /\ opt.sheet_orientation = "landscape"
    /\ opt.margin = RInt(10)
    /\ opt.output_sheets_number = RInt(4)
    /\ opt.output_sheet_orientation = "wide"
    /\ sel0 /= <<>>
    /\ SelWidth = RInt(1000)
    /\ SelHeight = RInt(500)
    /\ pc /= "start"

\* C11 as stated: in the worked example the tile height is 158.7, to the
\* one decimal given.
C11_TileHeightAsStated ==
    Scenario =>
        /\ res.tag = "ok"
        /\ RLe(<<15865, 100>>, res.slice_rect_size[2])
        /\ RLe(res.slice_rect_size[2], <<15875, 100>>)

\* C11: in the worked example the tile height is the tile width 250 divided
\* by the sheet-interior ratio 277/190, which is 47500/277, about 171.48.
C11_TileHeight ==
    Scenario =>
        /\ res.tag = "ok"
        /\ res.slice_rect_size[2] = <<47500, 277>>
        /\ RMul(res.slice_rect_size[2], <<277, 190>>) = RInt(250)
        /\ RLt(<<17147, 100>>, res.slice_rect_size[2])
        /\ RLt(res.slice_rect_size[2], <<17149, 100>>)

\* posterbator.py has planned the worked example and built its slicing batch
C11_Witness ==
    /\ Scenario
    /\ variant = "posterbator"
    /\ pc = "slice"
    /\ res.tag = "ok"

\* C12: in the worked example both scripts plan a tile width of 250, four
\* tiles across, three down, and the scale 1108/1000.
C12_ScenarioPlan ==
    Scenario =>
        /\ res.tag = "ok"
        /\ res.slice_rect_size[1] = RInt(250)
        /\ res.sheets_n = <<4, 3>>
        /\ res.scale = RNorm(1108, 1000)

\* posterbation.py has planned the worked example and run its slicing batch
C12_Witness ==
    /\ Scenario
    /\ variant = "posterbation"
    /\ res.tag = "ok"
    /\ trips = <<"slice">>
    /\ Cardinality({t \in Tiles : TRUE}) = 12


\* the batches of a run that corrects holes, in the order the program
\* issues them: slicing, mask, split, break-apart, combine-candidates,
\* recombination, difference
BatchOrder ==
    <<"slice", "rt_mask", "rt_split", "rt_break", "rt_comb_holes", "rt_comb",
      "rt_diff">>
HolesAsked == variant = "posterbator" /\ opt.output_holes_group
HolesGroupKids ==
    IF env.holes_group_id /= <<>> /\ env.holes_group_id \in DOMAIN doc.kids
    THEN doc.kids[env.holes_group_id] ELSE <<>>
\* the position of the batch b among the round-trips made so far (0: not made)
TripAt(b) ==
    IF \E k \in 1..Len(trips) : trips[k] = b
    THEN CHOOSE k \in 1..Len(trips) : trips[k] = b
    ELSE 0

\* C13: no batch is run twice, whatever the number of tiles, elements,
\* fragments and holes; all slicing commands are in the one batch that is
\* run first; a run that reaches its end has made seven round-trips (slicing
\* and the six of the hole corrector) when holes are corrected and exactly
\* one when they are not.
C13_RoundTripsFixed ==
    /\ \A a, b \in 1..Len(trips) : trips[a] = trips[b] => a = b
    /\ Len(trips) >= 1 => trips[1] = "slice"
    /\ pc = "slice" => /\ trips = <<>>
                       /\ Len(path_cmds) = Cardinality(Tiles) * Len(sel0)
    /\ pc = "done" => Len(trips) = IF HolesAsked THEN 7 ELSE 1
    /\ Len(trips) > 1 => HolesAsked

\* a finished run over several tiles and two elements with a hole found
C13_Witness ==
    /\ pc = "done"
    /\ Len(trips) = 7
    /\ Cardinality(Tiles) >= 2
    /\ Len(sel0) = 2
    /\ sh.hole_map /= <<>>

\* C14: when the hole corrector has finished, no mask is left in the
\* document, and no nesting container either.
C14_NoMaskRemains ==
    Corrected =>
        \A id \in DOMAIN doc.nodes : doc.nodes[id].role \notin {"mask", "nested"}

\* C15 as stated: the difference batch is run before the batch that
\* recombines the children of the nesting containers, and a hole is in the
\* holes group only after the difference batch.
C15_DifferenceBeforeRecombine ==
    /\ TripAt("rt_comb") > 0 => (TripAt("rt_diff") > 0 /\ TripAt("rt_diff") < TripAt("rt_comb"))
    /\ HolesGroupKids /= <<>> => TripAt("rt_diff") > 0

\* C15: the batches are run in the order mask, split, break-apart,
\* combine-candidates, recombination, difference.  The holes are in the
\* holes group before the recombination batch is run; the nesting
\* containers are gone before the difference batch, which comes last and
\* has one command for every page that had a hole candidate, on the hole
\* in the holes group.
C15_DifferenceLast ==
    /\ \A k \in 1..Len(trips) : trips[k] = BatchOrder[k]
    /\ HolesGroupKids /= <<>> => (TripAt("rt_comb_holes") > 0 /\ pc /= "holes_combined")
    /\ pc = "rt_comb" => Len(HolesGroupKids) = Len(sh.hole_map)
    /\ pc = "rt_diff" =>
          /\ Len(path_cmds) = Len(sh.hole_map)
          /\ \A k \in 1..Len(path_cmds) :
                /\ path_cmds[k].op = "diff"
                /\ doc.nodes[path_cmds[k].objs[1]].parent = env.holes_group_id
          /\ \A id \in DOMAIN doc.nodes : doc.nodes[id].role /= "nested"

\* the difference batch is about to be run on a hole of the holes group
C15_Witness ==
    /\ pc = "rt_diff"
    /\ trips = SubSeq(BatchOrder, 1, 6)
    /\ Len(path_cmds) >= 1
    /\ HolesGroupKids /= <<>>


\* the run was ended by the failed assertion msg
AbortedWith(msg) == pc = "aborted" /\ err = [kind |-> "AssertionError", msg |-> msg]
ConsistencyErrors ==
    {"Group can't be found! Assert!", "Elem can't be found! Assert!",
     "Hole path can't be found! Assert!", "Holes group can't be found! Assert!",
     "Page number is not found in dup map! Assert!", "Dup elem can't be found! Assert!",
     "Layer can't be found! Assert!"}
\* the engine gives another identifier to an object no command of the batch
\* names
Renamings == {"lost_group", "lost_nested", "lost_holes_group", "lost_mask"}

C17_SlicingBatch ==
    pc = "slice" =>
        LET nW == res.sheets_n[1]
            nH == res.sheets_n[2]
            n == Len(sel0)
            all == {path_cmds[c].objs[o] : c \in 1..Len(path_cmds), o \in 1..2}
        IN  /\ trips = <<>>
            /\ Len(path_cmds) = nW * nH * n
            /\ Cardinality(all) = 2 * Len(path_cmds)
            /\ all \cap DOMAIN doc0.nodes = {}
            /\ \A j \in 0..(nH - 1) : \A i \in 0..(nW - 1) : \A k \in 1..n :
                 LET c == path_cmds[(j * nW + i) * n + k]
                     r == doc.nodes[c.objs[2]].rect
                 IN  /\ c.op = "inter"
                     /\ Len(c.objs) = 2
                     /\ c.page_idx = <<i, j>>
                     /\ c.group = k
                     /\ doc.nodes[c.objs[1]].pieces = doc0.nodes[sel0[k]].pieces
                     /\ doc.nodes[c.objs[1]].bbox = doc0.nodes[sel0[k]].bbox
                     /\ r.left = RAdd(RInt(SelBox.x0), RMul(RInt(i), res.slice_rect_size[1]))
                     /\ r.top = RAdd(RInt(SelBox.y0), RMul(RInt(j), res.slice_rect_size[2]))
                     /\ r.width = res.slice_rect_size[1]
                     /\ r.height = res.slice_rect_size[2]

\* two elements on a grid of two tiles across and three down
C17_Witness ==
    /\ pc = "slice"
    /\ Len(sel0) = 2
    /\ res.sheets_n = <<2, 3>>
    /\ Len(path_cmds) = 12

\* the tiles on which some selected element has ink, and a tile's label
TilesWithFragments == {t \in Tiles : SlicedInk(t) /= {}}
Masks == {id \in DOMAIN doc.nodes : doc.nodes[id].role = "mask"}

\* C18: after the mask batch of an engine that keeps its contract, the pages
\* of the batch are the tiles that have a fragment, each once; the k-th
\* identifier the engine listed, with the k-th page's label put in front, is
\* on record for that page; the object of that name is the combination of
\* that tile's fragments of all layers; there is no other mask.
C18_MasksByPage ==
    (pc = "rt_split" /\ fault = "none") =>
        LET pages == sh.page_numbers
        IN  /\ Len(stdout) = Len(pages)
            /\ \A a, b \in 1..Len(pages) : pages[a] = pages[b] => a = b
            /\ {pages[k] : k \in 1..Len(pages)}
                  = {get_page_number_str(t) : t \in TilesWithFragments}
            /\ DOMAIN sh.dup_elems_map = {pages[k] : k \in 1..Len(pages)}
            /\ \A k \in 1..Len(pages) :
                  /\ sh.dup_elems_map[pages[k]]
                        = Joined(pages[k], SubSeq(stdout[k], 1, Len(stdout[k]) - 8))
                  /\ stdout[k][Len(stdout[k]) - 7] = 32
            /\ \A t \in TilesWithFragments :
                  LET id == sh.dup_elems_map[get_page_number_str(t)]
                  IN  /\ id \in Masks
                      /\ SplitHead(id) = get_page_number_str(t)
                      /\ InkOf(doc.nodes[id].pieces) = SlicedInk(t)
                      /\ Len(doc.nodes[id].pieces)
                            = Cardinality(UNION {{<<k, p>> : p \in 1..Len(Sliced(k, t))} :
                                                   k \in 1..Len(sel0)})
            /\ Cardinality(Masks) = Len(pages)

\* two layers that share a page, and a second page
C18_Witness ==
    /\ pc = "rt_split"
    /\ fault = "none"
    /\ Len(sh.page_numbers) >= 2
    /\ Len(sel0) = 2
    /\ \E t \in Tiles : InkOf(Sliced(1, t)) /= {} /\ InkOf(Sliced(2, t)) /= {}

\* what the nesting containers hold, and the hole candidates on record
UnderContainers ==
    LET under == KidsOfAll(doc, sh.nested_groups)
    IN  {under[k] : k \in 1..Len(under)}
Candidates ==
    UNION {{sh.hole_map[k].elems[e] : e \in 1..Len(sh.hole_map[k].elems)} :
             k \in 1..Len(sh.hole_map)}

\* C19: after the break-apart batch the hole candidates are exactly the
\* objects under the nesting containers whose identifier is not in the known
\* set, each under the page of its container; an object of the known set is
\* never in the holes group and never the subject of a difference command.
C19_CandidatesAreTheUnknown ==
    /\ pc = "rt_comb_holes" =>
          /\ Candidates = UnderContainers \ sh.known
          /\ \A k \in 1..Len(sh.hole_map) : \A e \in 1..Len(sh.hole_map[k].elems) :
                SplitHead(doc.nodes[sh.hole_map[k].elems[e]].parent) = sh.hole_map[k].page
    /\ \A k \in 1..Len(HolesGroupKids) :
          /\ HolesGroupKids[k] \notin sh.known
          /\ doc.nodes[HolesGroupKids[k]].role = "contour"
    /\ \A id \in sh.known :
          id \in DOMAIN doc.nodes => doc.nodes[id].parent /= env.holes_group_id
    /\ pc = "rt_diff" =>
          \A c \in 1..Len(path_cmds) :
              /\ path_cmds[c].objs[1] \notin sh.known
              /\ doc.nodes[path_cmds[c].objs[1]].role = "contour"

\* a nesting container that holds a known outline and a hole it enclosed
C19_Witness ==
    /\ pc = "rt_comb_holes"
    /\ \E k \in 1..Len(sh.nested_groups) :
          LET ks == doc.kids[sh.nested_groups[k]]
          IN  /\ \E a \in 1..Len(ks) : ks[a] \in sh.known
              /\ \E a \in 1..Len(ks) : ks[a] \notin sh.known /\ ks[a] \in Candidates

\* C20: the combine-candidates batch has one command for every page that has
\* two or more hole candidates (those of all layers together), over all of
\* them, and none for any other page; once the holes are moved, the holes
\* group holds one hole for every page that had a candidate, under the
\* identifier of the page's last candidate with the page's label in front,
\* and it is all of the page's candidates.
C20_OneHolePerPage ==
    /\ pc = "rt_comb_holes" =>
          LET many == {k \in 1..Len(sh.hole_map) : Len(sh.hole_map[k].elems) >= 2}
          IN  /\ \A a, b \in 1..Len(sh.hole_map) :
                    sh.hole_map[a].page = sh.hole_map[b].page => a = b
              /\ \A t \in Tiles :
                    LET found == {k \in 1..Len(sh.hole_map) :
                                    sh.hole_map[k].page = get_page_number_str(t)}
                        holes == UNION {{<<k, h>> : h \in SlicedHoles(k, t)} :
                                          k \in 1..Len(sel0)}
                    IN  IF holes = {} THEN found = {}
                        ELSE \E k \in found :
                                Len(sh.hole_map[k].elems) = Cardinality(holes)
              /\ Len(path_cmds) = Cardinality(many)
              /\ \A k \in many :
                    Cardinality({c \in 1..Len(path_cmds) :
                                   /\ path_cmds[c].op = "comb"
                                   /\ path_cmds[c].objs = sh.hole_map[k].elems}) = 1
    /\ pc = "rt_comb" =>
          /\ HolesGroupKids =
                [k \in 1..Len(sh.hole_map) |->
                    Joined(sh.hole_map[k].page,
                           sh.hole_map[k].elems[Len(sh.hole_map[k].elems)])]
          /\ \A k \in 1..Len(sh.hole_map) :
                \E t \in Tiles :
                    /\ get_page_number_str(t) = sh.hole_map[k].page
                    /\ InkOf(doc.nodes[HolesGroupKids[k]].pieces) = CandidateArea(t)

\* a page with hole candidates of two layers, now one hole in the holes group
C20_Witness ==
    /\ pc = "rt_comb"
    /\ Len(sel0) = 2
    /\ \E k \in 1..Len(sh.hole_map) : Len(sh.hole_map[k].elems) >= 2
    /\ \E t \in Tiles : SlicedHoles(1, t) /= {} /\ SlicedHoles(2, t) /= {}
    /\ HolesGroupKids /= <<>>

(***************************************************************************)
(* The structure after the hole correction                                 *)
(***************************************************************************)
\* what a LayerGroup holds, and the nesting containers of the document
GroupKids(k) == doc.kids[env.groups[k]]
NestingContainers == {id \in DOMAIN doc.nodes : doc.nodes[id].role = "nested"}

\* C21: when the hole correction has completed, the group of every selected
\* element holds exactly one fragment for each page on which the element
\* survived slicing and none for the other pages, that fragment is a direct
\* child of the group, the group holds nothing else, and no nesting
\* container remains anywhere in the document
C21_FlatAgain ==
    Corrected =>
        /\ NestingContainers = {}
        /\ \A k \in 1..Len(sel0) :
              LET survived == {t \in Tiles : InkOf(Sliced(k, t)) /= {}}
                  kids == GroupKids(k)
              IN  /\ \A t \in Tiles :
                        /\ Cardinality(FragmentsOf(k, t)) =
                              IF t \in survived THEN 1 ELSE 0
                        /\ \A id \in FragmentsOf(k, t) :
                              /\ doc.nodes[id].parent = env.groups[k]
                              /\ \E n \in 1..Len(kids) : kids[n] = id
                  /\ Len(kids) = Cardinality(survived)
                  /\ \A n \in 1..Len(kids) : doc.nodes[kids[n]].role = "dup"

\* a corrected run of two elements: one whose fragment on some page was
\* split into several paths, broken apart and lost a hole candidate, and
\* every page has its fragments back in the groups
C21_Witness ==
    /\ Corrected
    /\ Len(sel0) = 2
    /\ \E t \in Tiles : Len(Sliced(1, t)) >= 2
    /\ \E t \in Tiles : SlicedHoles(2, t) /= {}
    /\ HolesGroupKids /= <<>>
    /\ \A k \in 1..Len(sel0) : GroupKids(k) /= <<>>

(***************************************************************************)
(* Page labels                                                             *)
(***************************************************************************)
\* the number a text of decimal digits stands for
RECURSIVE DecimalValue(_)
DecimalValue(s) ==
    IF s = <<>> THEN 0 ELSE 10 * DecimalValue(SubSeq(s, 1, Len(s) - 1)) + (s[Len(s)] - 48)

\* l is the character with code 65+i followed by the decimal of j+1
IsLabelOf(l, t) ==
    /\ Len(l) >= 2
    /\ l[1] = 65 + t[1]
    /\ l[2] /= 48
    /\ \A n \in 2..Len(l) : l[n] \in 48..57
    /\ DecimalValue(Tail(l)) = t[2] + 1

\* the objects the program names "<label>-<id>"
HasDash(id) == \E n \in 1..Len(id) : id[n] = Dash
Named ==
    {id \in DOMAIN doc.nodes :
        /\ doc.nodes[id].role \in {"dup", "nested", "mask", "contour"}
        /\ HasDash(id)}

\* C22: the label of the tile (i,j) is the character with code 65+i
\* followed by the decimal of j+1; two tiles of a plan never have the same
\* label; whatever is named "<label>-<id>" (fragment, nesting container,
\* mask, hole) has the label of its own tile before the first "-"; and the
\* objects gathered under one page key are those of one tile, also in a
\* poster of more than 26 columns
C22_LabelsTellPagesApart ==
    \* the plan is made once: its labels are looked at when it is made
    /\ pc = "slice" =>
          LET label == [t \in Tiles |-> get_page_number_str(t)]
          IN  /\ \A t \in Tiles :
                    /\ IsLabelOf(label[t], t)
                    /\ \A n \in 1..Len(label[t]) : label[t][n] /= Dash
              /\ \A t, u \in Tiles : t /= u => label[t] /= label[u]
    /\ variant = "posterbator" =>
          /\ \A id \in Named : IsLabelOf(SplitHead(id), doc.nodes[id].tile)
          \* what is named: the fragments when placed, the nesting
          \* containers, the masks once listed, the holes of the holes group
          /\ Placed =>
                \A id \in Fragments :
                    /\ id \in Named
                    /\ doc.nodes[id].rect = TileRect(doc.nodes[id].tile)
          /\ fault = "none" =>
                \A id \in DOMAIN doc.nodes : doc.nodes[id].role = "nested" => id \in Named
          /\ (fault = "none" /\ pc = "rt_split") => Masks \subseteq Named
          /\ (fault = "none" /\ pc = "rt_comb") =>
                \A n \in 1..Len(HolesGroupKids) : HolesGroupKids[n] \in Named
    /\ (pc = "rt_mask" /\ fault = "none") =>
          \A c1, c2 \in 1..Len(path_cmds) :
              \A n1 \in 1..Len(path_cmds[c1].objs), n2 \in 1..Len(path_cmds[c2].objs) :
                  (doc.nodes[path_cmds[c1].objs[n1]].tile
                     = doc.nodes[path_cmds[c2].objs[n2]].tile) <=> (c1 = c2)
    /\ (pc = "rt_comb_holes" /\ fault = "none") =>
          \A k \in 1..Len(sh.hole_map) :
              \A n \in 1..Len(sh.hole_map[k].elems) :
                  IsLabelOf(sh.hole_map[k].page, doc.nodes[sh.hole_map[k].elems[n]].tile)

\* a corrected poster of more than 26 columns whose holes group has a hole
\* of a column beyond the 26th, named with a character after "Z"
C22_Witness ==
    /\ Corrected
    /\ res.sheets_n[1] > 26
    /\ \E n \in 1..Len(HolesGroupKids) :
          /\ doc.nodes[HolesGroupKids[n]].tile[1] >= 26
          /\ HolesGroupKids[n][1] > 90
    /\ \E id \in Fragments : doc.nodes[id].tile[1] >= 26 /\ id[1] > 90

(***************************************************************************)
(* The placed tiles and the pages                                          *)
(***************************************************************************)
\* the page that was created for the tile t
PageOf(t) ==
    doc.pages[env.selections[CHOOSE k \in 1..Len(env.selections) :
                                env.selections[k].page_idx = t].page]

\* the sheet, and the sheet without its margins
SheetW == RInt(res.sheet_size[1])
SheetH == RInt(res.sheet_size[2])
InteriorW == RSub(SheetW, TwoMargins)
InteriorH == RSub(SheetH, TwoMargins)

\* the surviving fragments have the minimum corner of the selection
MinCornerKept ==
    /\ env.dx = RAdd(RNeg(RMul(RInt(SelBox.x0), res.scale)), RInt(env.x_pos))
    /\ env.dy = RAdd(RNeg(RMul(RInt(SelBox.y0), res.scale)), RInt(env.y_pos))

\* the scaled tile is the sheet's interior
ScaledTileIsInterior ==
    /\ RMul(res.scale, res.slice_rect_size[1]) = InteriorW
    /\ RMul(res.scale, res.slice_rect_size[2]) = InteriorH

\* the page of the tile (i,j) lies at (x_pos + i*W, y_pos + j*H)
PageInPlace(t) ==
    /\ PageOf(t).x = env.x_pos + t[1] * res.sheet_size[1]
    /\ PageOf(t).y = env.y_pos + t[2] * res.sheet_size[2]
    /\ PageOf(t).width = res.sheet_size[1]
    /\ PageOf(t).height = res.sheet_size[2]

\* With the transform "translate(tx,ty) scale(s)" the tile rectangle lands
\* on the interior of its page exactly when s is the interior's width over
\* the tile's width (and its height over the tile's height) and (tx, ty) is
\* the interior's corner less s times the tile's corner
ExactScaleX(n) == RDiv(InteriorW, n.rect.width)
ExactScaleY(n) == RDiv(InteriorH, n.rect.height)
ExactTx(n) ==
    RSub(RAdd(RInt(PageOf(n.tile).x), opt.margin), RMul(ExactScaleX(n), n.rect.left))
ExactTy(n) ==
    RSub(RAdd(RInt(PageOf(n.tile).y), opt.margin), RMul(ExactScaleY(n), n.rect.top))

\* q has no more than six decimals, so that "%f" writes it as it is
SixDecimals(q) ==
    LET w == q[1] \div q[2] IN LongDiv(0, q[1] - w * q[2], q[2], 6)[2] = 0

\* C23 as stated: the placed rectangle of a tile is exactly the interior of
\* its page, that is, the numbers written into the transform are the exact
\* scale and translation
C23_PlacedExactlyOnInterior ==
    /\ res.tag = "ok" => ScaledTileIsInterior
    /\ (Placed /\ MinCornerKept) =>
          \A id \in Fragments :
              LET n == doc.nodes[id]
              IN  /\ PageInPlace(n.tile)
                  /\ ExactScaleX(n) = ExactScaleY(n)
                  /\ n.transform.scale = Format6(ExactScaleX(n))
                  /\ n.transform.tx = Format6(ExactTx(n))
                  /\ n.transform.ty = Format6(ExactTy(n))
                  /\ SixDecimals(ExactScaleX(n))
                  /\ SixDecimals(ExactTx(n))
                  /\ SixDecimals(ExactTy(n))

\* C23: in both modes scale * tileW = W - 2 * margin and scale * tileH =
\* H - 2 * margin; when the surviving fragments have the minimum corner of
\* the selection, the page of the tile (i,j) lies at (x_pos + i*W,
\* y_pos + j*H), and the scale and the translation written on a fragment are
\* the six-decimal renderings of the scale and the translation that put its
\* tile exactly on the margin-inset interior of that page
C23_PlacedOnInteriorWithinRounding ==
    /\ res.tag = "ok" => ScaledTileIsInterior
    /\ (Placed /\ MinCornerKept) =>
          \A id \in Fragments :
              LET n == doc.nodes[id]
              IN  /\ PageInPlace(n.tile)
                  /\ ExactScaleX(n) = ExactScaleY(n)
                  /\ n.transform.scale = Format6(ExactScaleX(n))
                  /\ n.transform.tx = Format6(ExactTx(n))
                  /\ n.transform.ty = Format6(ExactTy(n))

\* placed fragments beyond the first column and the first row, a margin, the
\* minimum corner kept, and a translation and a scale of more than six
\* decimals
C23_Witness ==
    /\ Placed
    /\ MinCornerKept
    /\ RLt(RInt(0), opt.margin)
    /\ \E id \in Fragments : doc.nodes[id].tile[1] >= 1 /\ doc.nodes[id].tile[2] >= 1
    /\ \E id \in Fragments : ~SixDecimals(ExactTx(doc.nodes[id]))
    /\ \E id \in Fragments : ~SixDecimals(ExactScaleX(doc.nodes[id]))

(***************************************************************************)
(* The hole corrector with an engine that keeps its contract               *)
(***************************************************************************)
\* the holes of the holes group have the mask of their page on record, and
\* the mask is in the document
MasksOnRecord ==
    \A n \in 1..Len(HolesGroupKids) :
        /\ SplitHead(HolesGroupKids[n]) \in DOMAIN sh.dup_elems_map
        /\ sh.dup_elems_map[SplitHead(HolesGroupKids[n])] \in Masks
        /\ doc.nodes[sh.dup_elems_map[SplitHead(HolesGroupKids[n])]].tile
              = doc.nodes[HolesGroupKids[n]].tile

\* C24: with an engine that keeps the adapter contract no consistency
\* assertion of the hole corrector is raised and no run ends inside the hole
\* corrector (a run that ends after the slicing batch ends in effect, on a
\* selection of which nothing is left); when the holes have been moved to
\* the holes group every one of them has the mask of its page on record;
\* a run in the hole corrector that is not at its end is at a step or a
\* batch that is still to be made, and it is at its end when all seven
\* batches are made, the difference batch last
C24_ConformingEngineReachesEnd ==
    fault = "none" =>
        /\ err.msg \notin ConsistencyErrors
        /\ pc = "aborted" =>
              /\ Len(trips) <= 1
              /\ Len(trips) = 1 => err.kind = "AttributeError"
        /\ (HolesAsked /\ pc \in {"rt_comb", "combined"}) => MasksOnRecord
        /\ (HolesAsked /\ Len(trips) >= 1 /\ pc \notin {"done", "aborted"}) =>
              /\ pc \in Batches \cup {"place", "holes", "masks", "split", "broken",
                                      "holes_combined", "combined"}
              /\ Len(trips) < Len(BatchOrder)
        /\ (HolesAsked /\ pc = "done") => trips = BatchOrder

\* the end of the difference batch of a run with two layers whose hole
\* candidates on one page were combined, and with a compound fragment
C24_Witness ==
    /\ Corrected
    /\ trips = BatchOrder
    /\ Len(sel0) = 2
    /\ \E k \in 1..Len(sh.hole_map) : Len(sh.hole_map[k].elems) >= 2
    /\ \E t \in Tiles : Len(Sliced(1, t)) >= 2

(***************************************************************************)
(* The two variants side by side                                           *)
(***************************************************************************)
\* what the other variant does with the document, the selection and the
\* options of this run: its plan, its slicing, the engine's intersections,
\* its placement
Other == IF variant = "posterbator" THEN "posterbation" ELSE "posterbator"
OtherEntry == effect_entry(Other, opt, doc0, sel0)
OtherSlice == effect_slice(Other, doc0, sel0, OtherEntry)
OtherPlace ==
    LET e == OtherEntry
        b == effect_slice(Other, doc0, sel0, e)
    IN  effect_place(Other, opt, EngineInter(b.doc, b.cmds), b.cmds, e, b.env)

\* the command c on the document d and the command oc on the document od
\* ask for the same thing: the same operation on a duplicate of the same
\* element and a rectangle of the same place and size, for the same tile,
\* page and group
SameCommand(d, c, od, oc) ==
    /\ c.op = oc.op
    /\ c.page_idx = oc.page_idx
    /\ c.page = oc.page
    /\ c.group = oc.group
    /\ d.pages[c.page] = od.pages[oc.page]
    /\ d.nodes[c.objs[1]].src = od.nodes[oc.objs[1]].src
    /\ d.nodes[c.objs[1]].pieces = od.nodes[oc.objs[1]].pieces
    /\ d.nodes[c.objs[2]].rect = od.nodes[oc.objs[2]].rect

=============================================================================
